---------------------------- MODULE Spec2Model ----------------------------
(***************************************************************************)
(* Verification model of the chunked risk-analysis engine of the PR Risk   *)
(* Scoring Tool (src/src/riskAnalyzer.ts, src/src/types/errors.ts).        *)
(*                                                                         *)
(* A diff is a sequence of characters.  Sizes are scaled: one model        *)
(* character stands for 1024 bytes of diff, so the program's 30KB hard     *)
(* maximum, 5KB chunk budget and 2KB re-split floor are 30, 5 and 2.       *)
(* The file-boundary marker prefix "diff --git" is scaled to the two       *)
(* characters "dg".                                                        *)
(*                                                                         *)
(* Nine specifications share the module:                                   *)
(*   SplitSpec   - splitDiffIntoChunks applied to every bounded diff and   *)
(*                 budget;                                                 *)
(*   CombineSpec - combineAssessments applied to every bounded list of     *)
(*                 assessments;                                            *)
(*   Spec        - one top-level analyzeDiff call, its recursion stack and *)
(*                 the completion client's answers;                        *)
(*   ParseSpec   - parseAndValidate applied to every bounded response      *)
(*                 content;                                                *)
(*   FallbackSpec - createFallbackAssessment applied to every bounded diff *)
(*                 size;                                                   *)
(*   ClassifySpec - isSizeLimitError applied to every bounded thrown       *)
(*                 value;                                                  *)
(*   CliSpec     - the exit code main chooses after a successful analysis; *)
(*   StdinSpec   - readDiffFromStdin under every order of the 'data',      *)
(*                 'end' and 'error' events of stdin and of its timer;     *)
(*   SplitUseSpec - SplitSpec and Spec side by side: the splitter on every *)
(*                 bounded input and as analyzeDiff calls it.              *)
(***************************************************************************)
EXTENDS Integers, Sequences, FiniteSets, TLC

VARIABLES
  sDiff,      \* splitter: the diff handed to splitDiffIntoChunks
  sBudget,    \* splitter: maxChunkSize
  sChunks,    \* splitter: the returned chunks
  sPc,        \* splitter: "idle" | "ready" | "done"
  cIn,        \* combiner: the assessments handed to combineAssessments
  cOut,       \* combiner: the returned assessment
  cPc,        \* combiner: "idle" | "ready" | "done"
  envLimit,   \* process.env.MAX_DIFF_SIZE_KB (0: unset or not a positive number)
  input,      \* the arguments of the top-level analyzeDiff call
  stack,      \* the analyzeDiff calls in progress, the innermost last
  ret,        \* the outcome of the call that finished last, until its caller takes it
  calls,      \* the completion calls made so far, with how each ended
              \* and whether the error raised was of the size class
  invoked,    \* how often the call has run the splitter, combiner and fallback
  pContent,   \* parser: the content handed to parseAndValidate
  pOut,       \* parser: what parseAndValidate returned or threw
  pPc,        \* parser: "idle" | "ready" | "done"
  fSize,      \* fallback: the diffSize handed to createFallbackAssessment
  fOut,       \* fallback: the returned assessment
  fPc,        \* fallback: "idle" | "ready" | "done"
  eValue,     \* classifier: the value handed to isSizeLimitError
  eOut,       \* classifier: the returned boolean
  ePc,        \* classifier: "idle" | "ready" | "done"
  mIn,        \* CLI: argv, the interactive options and the assessment main has
  mExit,      \* CLI: the exit code of the process
  mPc,        \* CLI: "idle" | "analyzed" | "exited"
  rTTY,       \* stdin reader: process.stdin.isTTY
  rMax,       \* stdin reader: maxSizeBytes
  rData,      \* stdin reader: the data received so far
  rTimeout,   \* stdin reader: the timer handle in its variable timeout, 0 for null
  rArmed,     \* stdin reader: the handles of the timers the event loop holds armed
  rListeners, \* stdin reader: the events of process.stdin it has a listener on
  rSettle,    \* stdin reader: the resolve and reject calls made on its promise
  rPc         \* stdin reader: "idle" | "called" | "running"

splitVars == <<sDiff, sBudget, sChunks, sPc>>
combineVars == <<cIn, cOut, cPc>>
analyzeVars == <<envLimit, input, stack, ret, calls, invoked>>
parseVars == <<pContent, pOut, pPc>>
fallbackVars == <<fSize, fOut, fPc>>
classifyVars == <<eValue, eOut, ePc>>
cliVars == <<mIn, mExit, mPc>>
stdinVars == <<rTTY, rMax, rData, rTimeout, rArmed, rListeners, rSettle, rPc>>
vars == <<sDiff, sBudget, sChunks, sPc, cIn, cOut, cPc,
          envLimit, input, stack, ret, calls, invoked,
          pContent, pOut, pPc, fSize, fOut, fPc, eValue, eOut, ePc,
          mIn, mExit, mPc,
          rTTY, rMax, rData, rTimeout, rArmed, rListeners, rSettle, rPc>>

----------------------------------------------------------------------------
(* Bounds *)

MaxSplitLen == 6      \* longest diff handed to the splitter
MaxSplitBudget == 5   \* largest maxChunkSize handed to the splitter
MaxAssessments == 3   \* longest list handed to the combiner
MaxDiffLen == 5       \* longest diff handed to analyzeDiff
MaxEnvKB == 6         \* largest MAX_DIFF_SIZE_KB setting
MaxDepth == 4         \* analyzeDiff calls the runtime's call stack can hold
MaxFallbackSize == 60 \* largest diffSize handed to createFallbackAssessment
MaxWrapLen == 3       \* most fragments before and after a response's body
MaxMessageLen == 2    \* most fragments of an error message handed to the classifier
MaxStdinBytes == 3    \* largest maxSizeBytes of the stdin reader
MaxStdinChunk == 2    \* longest chunk a 'data' event of stdin carries

----------------------------------------------------------------------------
(* Program constants, in units of 1024 bytes *)

BytesPerKB == 1
DEFAULT_MAX_DIFF_SIZE == 30 * BytesPerKB

----------------------------------------------------------------------------
(* Strings *)

NL == "\n"
SP == " "
Alphabet == {NL, SP, "d", "g"}
Whitespace == {NL, SP}

\* the characters of the diffs handed to analyzeDiff: blank lines are its
\* whitespace
AnalyzeAlphabet == {NL, "d", "g"}

\* the prefix line.startsWith tests for a file boundary
MarkerPrefix == <<"d", "g">>

StringsOver(chars, n) == UNION {[1..k -> chars] : k \in 0..n}
StringsUpTo(n) == StringsOver(Alphabet, n)

\* String.prototype.split("\n"): the pieces between newlines, at least one
RECURSIVE SplitLinesFrom(_, _, _, _)
SplitLinesFrom(s, i, cur, acc) ==
  IF i > Len(s) THEN Append(acc, cur)
  ELSE IF s[i] = NL THEN SplitLinesFrom(s, i + 1, <<>>, Append(acc, cur))
  ELSE SplitLinesFrom(s, i + 1, Append(cur, s[i]), acc)

SplitLines(s) == SplitLinesFrom(s, 1, <<>>, <<>>)

\* Array.prototype.join("\n")
RECURSIVE JoinLines(_)
JoinLines(parts) ==
  IF Len(parts) = 0 THEN <<>>
  ELSE IF Len(parts) = 1 THEN parts[1]
  ELSE parts[1] \o <<NL>> \o JoinLines(Tail(parts))

\* String.prototype.startsWith
StartsWith(s, prefix) ==
  /\ Len(s) >= Len(prefix)
  /\ SubSeq(s, 1, Len(prefix)) = prefix

\* String.prototype.trim
RECURSIVE TrimStart(_)
TrimStart(s) ==
  IF Len(s) > 0 /\ s[1] \in Whitespace THEN TrimStart(Tail(s)) ELSE s

RECURSIVE TrimEnd(_)
TrimEnd(s) ==
  IF Len(s) > 0 /\ s[Len(s)] \in Whitespace
  THEN TrimEnd(SubSeq(s, 1, Len(s) - 1)) ELSE s

Trim(s) == TrimEnd(TrimStart(s))

----------------------------------------------------------------------------
(* splitDiffIntoChunks *)

\* the accumulators before the first line
SplitStart == [chunks |-> <<>>, currentChunk |-> <<>>, currentSize |-> 0]

\* the push of currentChunk.join("\n") and the reset of the accumulators
FlushChunk(st) ==
  [chunks |-> Append(st.chunks, JoinLines(st.currentChunk)),
   currentChunk |-> <<>>, currentSize |-> 0]

\* Mutant: a line that alone exceeds the budget is skipped
SplitLoopBody_SkipLong(st, line, maxChunkSize) ==
  LET lineSize == Len(line) + 1
      s1 == IF st.currentSize + lineSize > maxChunkSize
               /\ Len(st.currentChunk) > 0
            THEN FlushChunk(st) ELSE st
      s2 == IF StartsWith(line, MarkerPrefix) /\ Len(s1.currentChunk) > 0
            THEN FlushChunk(s1) ELSE s1
  IN IF lineSize > maxChunkSize + 1 THEN s2
     ELSE [s2 EXCEPT !.currentChunk = Append(@, line),
                     !.currentSize = @ + lineSize]

\* Mutant: the budget test ignores the newline that joins the line
SplitLoopBody_NoNewline(st, line, maxChunkSize) ==
  LET lineSize == Len(line) + 1
      s1 == IF st.currentSize + Len(line) > maxChunkSize + 1
               /\ Len(st.currentChunk) > 0
            THEN FlushChunk(st) ELSE st
      s2 == IF StartsWith(line, MarkerPrefix) /\ Len(s1.currentChunk) > 0
            THEN FlushChunk(s1) ELSE s1
  IN [s2 EXCEPT !.currentChunk = Append(@, line),
                !.currentSize = @ + lineSize]

\* Mutant: a file boundary only starts a new chunk when the budget is spent
SplitLoopBody_NoBoundary(st, line, maxChunkSize) ==
  LET lineSize == Len(line) + 1
      s1 == IF st.currentSize + lineSize > maxChunkSize
               /\ Len(st.currentChunk) > 0
            THEN FlushChunk(st) ELSE st
  IN [s1 EXCEPT !.currentChunk = Append(@, line),
                !.currentSize = @ + lineSize]

\* one iteration of the for loop over the lines
SplitLoopBody(st, line, maxChunkSize) ==
  LET lineSize == Len(line) + 1
      s1 == IF st.currentSize + lineSize > maxChunkSize
               /\ Len(st.currentChunk) > 0
            THEN FlushChunk(st) ELSE st
      s2 == IF StartsWith(line, MarkerPrefix) /\ Len(s1.currentChunk) > 0
            THEN FlushChunk(s1) ELSE s1
  IN [s2 EXCEPT !.currentChunk = Append(@, line),
                !.currentSize = @ + lineSize]

RECURSIVE SplitLoop(_, _, _, _)
SplitLoop(lines, i, st, maxChunkSize) ==
  IF i > Len(lines) THEN st
  ELSE SplitLoop(lines, i + 1, SplitLoopBody(st, lines[i], maxChunkSize),
                 maxChunkSize)

\* the chunks before the final filter: the loop, then the remaining chunk
ScannedChunks(diff, maxChunkSize) ==
  LET st == SplitLoop(SplitLines(diff), 1, SplitStart, maxChunkSize)
  IN IF Len(st.currentChunk) > 0 THEN FlushChunk(st).chunks ELSE st.chunks

\* the filter's predicate: chunk.trim().length > 0
HasContent(chunk) == Len(Trim(chunk)) > 0

\* Mutant: the filter also drops a chunk that is over the budget
splitDiffIntoChunks_DropOverBudget(diff, maxChunkSize) ==
  SelectSeq(ScannedChunks(diff, maxChunkSize),
            LAMBDA chunk : HasContent(chunk) /\ Len(chunk) <= maxChunkSize)

splitDiffIntoChunks(diff, maxChunkSize) ==
  SelectSeq(ScannedChunks(diff, maxChunkSize), HasContent)

----------------------------------------------------------------------------
(* SplitSpec: the splitter on every bounded input *)

NoAssessment == [risk_level |-> "none"]

NoReturn == [kind |-> "none"]

NothingInvoked ==
  [splitDiffIntoChunks |-> 0, combineAssessments |-> 0,
   createFallbackAssessment |-> 0]

AnalyzeIdle ==
  /\ envLimit = 0
  /\ input = [diff |-> <<>>, enableChunking |-> TRUE]
  /\ stack = <<>>
  /\ ret = NoReturn
  /\ calls = <<>>
  /\ invoked = NothingInvoked

ParseIdle == pContent = <<>> /\ pOut = NoReturn /\ pPc = "idle"
FallbackIdle == fSize = 0 /\ fOut = NoAssessment /\ fPc = "idle"
ClassifyIdle == eValue = [type |-> "null"] /\ eOut = FALSE /\ ePc = "idle"
CliIdle == mIn = [type |-> "null"] /\ mExit = 0 /\ mPc = "idle"
StdinIdle ==
  /\ rTTY = FALSE
  /\ rMax = 0
  /\ rData = <<>>
  /\ rTimeout = 0
  /\ rArmed = {}
  /\ rListeners = {}
  /\ rSettle = <<>>
  /\ rPc = "idle"

SplitIdle == sDiff = <<>> /\ sBudget = 1 /\ sChunks = <<>> /\ sPc = "idle"
CombineIdle == cIn = <<>> /\ cOut = NoAssessment /\ cPc = "idle"

SplitInit ==
  /\ sDiff \in StringsUpTo(MaxSplitLen)
  /\ sBudget \in 1..MaxSplitBudget
  /\ sChunks = <<>>
  /\ sPc = "ready"
  /\ CombineIdle
  /\ AnalyzeIdle
  /\ ParseIdle
  /\ FallbackIdle
  /\ ClassifyIdle
  /\ CliIdle
  /\ StdinIdle

SplitCall ==
  /\ sPc = "ready"
  /\ sChunks' = splitDiffIntoChunks(sDiff, sBudget)
  /\ sPc' = "done"
  /\ UNCHANGED <<sDiff, sBudget>>
  /\ UNCHANGED combineVars
  /\ UNCHANGED analyzeVars
  /\ UNCHANGED <<parseVars, fallbackVars, classifyVars, cliVars, stdinVars>>

SplitNext == SplitCall

SplitSpec == SplitInit /\ [][SplitNext]_vars

----------------------------------------------------------------------------
(* Claims about splitDiffIntoChunks, checked under SplitSpec *)

IsMarkerLine(line) == StartsWith(line, MarkerPrefix)

\* the first line of every chunk, in chunk order
FirstLines(chunks) == [c \in 1..Len(chunks) |-> SplitLines(chunks[c])[1]]

\* C4 as stated: joining the returned chunks with a newline between
\* consecutive chunks reproduces the original diff exactly, whatever lines
\* (blank lines included) the diff has.
C4_LosslessJoin ==
  sPc = "done" => JoinLines(sChunks) = sDiff

\* C4 amended: joining the chunks the scan produces reproduces the diff
\* exactly; splitDiffIntoChunks then drops the whitespace-only chunks, so the
\* join of the returned chunks equals the diff when nothing was dropped, in
\* particular whenever every line of the diff has a non-whitespace character.
C4_LosslessUnlessDropped ==
  sPc = "done" =>
    /\ JoinLines(ScannedChunks(sDiff, sBudget)) = sDiff
    /\ (Len(sChunks) = Len(ScannedChunks(sDiff, sBudget))
          => JoinLines(sChunks) = sDiff)
    /\ ((\A k \in 1..Len(SplitLines(sDiff)) : HasContent(SplitLines(sDiff)[k]))
          => JoinLines(sChunks) = sDiff)

\* C4 witness: a diff with a blank line and a file boundary was split into
\* several chunks that join back to it.
C4_Witness ==
  /\ sPc = "done"
  /\ Len(sChunks) >= 2
  /\ \E k \in 1..Len(SplitLines(sDiff)) : SplitLines(sDiff)[k] = <<>>
  /\ \E k \in 1..Len(SplitLines(sDiff)) : IsMarkerLine(SplitLines(sDiff)[k])
  /\ JoinLines(sChunks) = sDiff

\* C5 as stated: every returned chunk is within the budget unless it is one
\* line that alone exceeds the budget, and every such line of the diff is
\* kept whole as its own chunk.
C5_BudgetRespect ==
  sPc = "done" =>
    LET Long(s) == Len(s) > sBudget
    IN SelectSeq(sChunks, Long) = SelectSeq(SplitLines(sDiff), Long)

\* C5 amended: every returned chunk is within the budget unless it is one
\* line that alone exceeds the budget; every such line that has a
\* non-whitespace character is kept whole as its own chunk, in order, and a
\* whitespace-only one is dropped.
C5_BudgetRespectNonBlank ==
  sPc = "done" =>
    LET Long(s) == Len(s) > sBudget
        LongWithContent(s) == Len(s) > sBudget /\ HasContent(s)
    IN SelectSeq(sChunks, Long) = SelectSeq(SplitLines(sDiff), LongWithContent)

\* C5 witness: a line longer than the budget is a chunk of its own, whole,
\* next to a chunk that fits the budget.
C5_Witness ==
  /\ sPc = "done"
  /\ \E c \in 1..Len(sChunks) :
       /\ Len(sChunks[c]) > sBudget
       /\ \E k \in 1..Len(SplitLines(sDiff)) : SplitLines(sDiff)[k] = sChunks[c]
  /\ \E c \in 1..Len(sChunks) : Len(sChunks[c]) <= sBudget

\* C6: a file-boundary marker line is only ever the first line of a returned
\* chunk, and the marker lines of the diff are exactly the marker first
\* lines of the chunks, in order (none cut, none lost).
C6_BoundaryPreference ==
  sPc = "done" =>
    /\ \A c \in 1..Len(sChunks) :
         \A k \in 2..Len(SplitLines(sChunks[c])) :
           ~IsMarkerLine(SplitLines(sChunks[c])[k])
    /\ SelectSeq(FirstLines(sChunks), IsMarkerLine)
         = SelectSeq(SplitLines(sDiff), IsMarkerLine)

\* C6 witness: a chunk ended before a marker although the marker line would
\* still have fitted the budget.
C6_Witness ==
  /\ sPc = "done"
  /\ \E c \in 2..Len(sChunks) :
       /\ IsMarkerLine(SplitLines(sChunks[c])[1])
       /\ Len(sChunks[c - 1]) + 1 + Len(SplitLines(sChunks[c])[1]) + 1 <= sBudget

----------------------------------------------------------------------------
(* Assessments, createFallbackAssessment, combineAssessments *)

RiskLevels == {"LOW", "MEDIUM", "HIGH"}
MigrationRisks == {"NONE", "LOW", "HIGH"}

\* Math.round(diffSize / 1024)
RoundKB(size) == (2 * size + BytesPerKB) \div (2 * BytesPerKB)

\* Mutant: migration_risk is given the value of risk_level
createFallbackAssessment_LevelAsMigration(diffSize) ==
  [risk_level |-> "MEDIUM",
   risk_summary |-> <<"Large diff (", ToString(RoundKB(diffSize)),
                      "KB) could not be fully analyzed due to API token limits. Manual review recommended.">>,
   risk_factors |-> <<"Diff too large for automated analysis",
                      "API token limits exceeded",
                      "Consider analyzing specific files or switching to OpenAI provider">>,
   reviewer_focus_areas |-> <<"Review all changes manually",
                              "Check for breaking changes",
                              "Verify test coverage",
                              "Review database migrations if any">>,
   missing_tests |-> TRUE,
   migration_risk |-> "MEDIUM"]

createFallbackAssessment(diffSize) ==
  [risk_level |-> "MEDIUM",
   risk_summary |-> <<"Large diff (", ToString(RoundKB(diffSize)),
                      "KB) could not be fully analyzed due to API token limits. Manual review recommended.">>,
   risk_factors |-> <<"Diff too large for automated analysis",
                      "API token limits exceeded",
                      "Consider analyzing specific files or switching to OpenAI provider">>,
   reviewer_focus_areas |-> <<"Review all changes manually",
                              "Check for breaking changes",
                              "Verify test coverage",
                              "Review database migrations if any">>,
   missing_tests |-> TRUE,
   migration_risk |-> "NONE"]

\* Mutant: the levels are compared as strings ("MEDIUM" > "LOW" > "HIGH")
riskLevelOrder_Lexical(level) ==
  CASE level = "HIGH" -> 1 [] level = "LOW" -> 2 [] level = "MEDIUM" -> 3

riskLevelOrder(level) ==
  CASE level = "LOW" -> 1 [] level = "MEDIUM" -> 2 [] level = "HIGH" -> 3

\* Mutant: a later assessment replaces max when it is at least as high
RECURSIVE ReduceHighest_LastWins(_, _, _)
ReduceHighest_LastWins(assessments, i, max) ==
  IF i > Len(assessments) THEN max
  ELSE ReduceHighest_LastWins(assessments, i + 1,
         IF riskLevelOrder(assessments[i].risk_level)
              >= riskLevelOrder(max.risk_level)
         THEN assessments[i] ELSE max)

\* assessments.reduce without an initial value: the first element starts as
\* max, a later one replaces it only when strictly higher
RECURSIVE ReduceHighest(_, _, _)
ReduceHighest(assessments, i, max) ==
  IF i > Len(assessments) THEN max
  ELSE ReduceHighest(assessments, i + 1,
         IF riskLevelOrder(assessments[i].risk_level)
              > riskLevelOrder(max.risk_level)
         THEN assessments[i] ELSE max)

\* Mutant: the first assessment is taken as the highest
highestRisk_First(assessments) == assessments[1]

highestRisk(assessments) == ReduceHighest(assessments, 2, assessments[1])

\* Mutant: the strings are collected in an array, not a Set
SetAdd_NoDedup(set, item) == Append(set, item)

\* Set.prototype.add on an insertion-ordered Set
SetAdd(set, item) ==
  IF \E k \in 1..Len(set) : set[k] = item THEN set ELSE Append(set, item)

RECURSIVE AddAll(_, _, _)
AddAll(set, items, k) ==
  IF k > Len(items) THEN set ELSE AddAll(SetAdd(set, items[k]), items, k + 1)

\* the forEach over the assessments, filling allRiskFactors
RECURSIVE allRiskFactors(_, _, _)
allRiskFactors(assessments, i, set) ==
  IF i > Len(assessments) THEN set
  ELSE allRiskFactors(assessments, i + 1,
                      AddAll(set, assessments[i].risk_factors, 1))

\* the forEach over the assessments, filling allFocusAreas
RECURSIVE allFocusAreas(_, _, _)
allFocusAreas(assessments, i, set) ==
  IF i > Len(assessments) THEN set
  ELSE allFocusAreas(assessments, i + 1,
                     AddAll(set, assessments[i].reviewer_focus_areas, 1))

\* Mutant: the flag is assigned from each assessment, so the last one wins
anyMissingTests_LastWins(assessments) ==
  assessments[Len(assessments)].missing_tests

\* the forEach over the assessments, setting anyMissingTests
anyMissingTests(assessments) ==
  \E i \in 1..Len(assessments) : assessments[i].missing_tests

\* the forEach over the assessments, collecting the non-NONE migration risks
migrationRisks(assessments) ==
  LET NotNone(a) == a.migration_risk # "NONE"
      kept == SelectSeq(assessments, NotNone)
  IN [k \in 1..Len(kept) |-> kept[k].migration_risk]

Includes(seq, item) == \E k \in 1..Len(seq) : seq[k] = item

\* Mutant: LOW is tested before HIGH
combinedMigrationRisk_LowFirst(assessments) ==
  IF Includes(migrationRisks(assessments), "LOW") THEN "LOW"
  ELSE IF Includes(migrationRisks(assessments), "HIGH") THEN "HIGH"
  ELSE "NONE"

combinedMigrationRisk(assessments) ==
  IF Includes(migrationRisks(assessments), "HIGH") THEN "HIGH"
  ELSE IF Includes(migrationRisks(assessments), "LOW") THEN "LOW"
  ELSE "NONE"

\* the combined summary: prefixed with the chunk count when it is above one
CombinedSummary(assessments) ==
  IF Len(assessments) > 1
  THEN <<"Analyzed ", ToString(Len(assessments)), " file chunks. ">>
         \o highestRisk(assessments).risk_summary
  ELSE highestRisk(assessments).risk_summary

\* the aggregation that follows the two early returns
CombineMany(assessments) ==
  [risk_level |-> highestRisk(assessments).risk_level,
   risk_summary |-> CombinedSummary(assessments),
   risk_factors |-> allRiskFactors(assessments, 1, <<>>),
   reviewer_focus_areas |-> allFocusAreas(assessments, 1, <<>>),
   missing_tests |-> anyMissingTests(assessments),
   migration_risk |-> combinedMigrationRisk(assessments)]

\* Mutant: no early return for a single assessment
combineAssessments_NoIdentity(assessments) ==
  IF Len(assessments) = 0 THEN createFallbackAssessment(0)
  ELSE CombineMany(assessments)

combineAssessments(assessments) ==
  IF Len(assessments) = 0 THEN createFallbackAssessment(0)
  ELSE IF Len(assessments) = 1 THEN assessments[1]
  ELSE CombineMany(assessments)

----------------------------------------------------------------------------
(* CombineSpec: the combiner on every bounded list of assessments *)

\* summary, risk factors, focus areas, missing_tests and migration_risk as a
\* completion response may carry them (the schema allows repeated strings)
ResponseBodies ==
  { [risk_summary |-> <<"s1">>, risk_factors |-> <<>>,
     reviewer_focus_areas |-> <<"a1">>,
     missing_tests |-> FALSE, migration_risk |-> "NONE"],
    [risk_summary |-> <<"s2">>, risk_factors |-> <<"f1">>,
     reviewer_focus_areas |-> <<"a1", "a2">>,
     missing_tests |-> TRUE, migration_risk |-> "NONE"],
    [risk_summary |-> <<"s1">>, risk_factors |-> <<"f1", "f1">>,
     reviewer_focus_areas |-> <<>>,
     missing_tests |-> FALSE, migration_risk |-> "LOW"],
    [risk_summary |-> <<"s2">>, risk_factors |-> <<"f2", "f1">>,
     reviewer_focus_areas |-> <<"a2">>,
     missing_tests |-> FALSE, migration_risk |-> "HIGH"],
    [risk_summary |-> <<"s1">>, risk_factors |-> <<"f1", "f2">>,
     reviewer_focus_areas |-> <<"a2", "a2">>,
     missing_tests |-> TRUE, migration_risk |-> "LOW"],
    [risk_summary |-> <<"s2">>, risk_factors |-> <<"f2">>,
     reviewer_focus_areas |-> <<"a2", "a1">>,
     missing_tests |-> TRUE, migration_risk |-> "HIGH"] }

Assessments ==
  { [risk_level |-> l,
     risk_summary |-> b.risk_summary,
     risk_factors |-> b.risk_factors,
     reviewer_focus_areas |-> b.reviewer_focus_areas,
     missing_tests |-> b.missing_tests,
     migration_risk |-> b.migration_risk] : l \in RiskLevels, b \in ResponseBodies }

CombineInit ==
  /\ cIn \in UNION {[1..n -> Assessments] : n \in 0..MaxAssessments}
  /\ cOut = NoAssessment
  /\ cPc = "ready"
  /\ SplitIdle
  /\ AnalyzeIdle
  /\ ParseIdle
  /\ FallbackIdle
  /\ ClassifyIdle
  /\ CliIdle
  /\ StdinIdle

CombineCall ==
  /\ cPc = "ready"
  /\ cOut' = combineAssessments(cIn)
  /\ cPc' = "done"
  /\ UNCHANGED cIn
  /\ UNCHANGED splitVars
  /\ UNCHANGED analyzeVars
  /\ UNCHANGED <<parseVars, fallbackVars, classifyVars, cliVars, stdinVars>>

CombineNext == CombineCall

CombineSpec == CombineInit /\ [][CombineNext]_vars

----------------------------------------------------------------------------
(* Claims about combineAssessments, checked under CombineSpec *)

ElementsOf(seq) == {seq[k] : k \in 1..Len(seq)}

NoRepeats(seq) == \A j, k \in 1..Len(seq) : seq[j] = seq[k] => j = k

\* C7: the combined risk_level is the maximum of the inputs' levels under
\* LOW < MEDIUM < HIGH: HIGH when some input is HIGH, else MEDIUM when some
\* input is MEDIUM, else LOW.
C7_CombinerMonotonicity ==
  (cPc = "done" /\ Len(cIn) >= 1) =>
    cOut.risk_level =
      IF \E i \in 1..Len(cIn) : cIn[i].risk_level = "HIGH" THEN "HIGH"
      ELSE IF \E i \in 1..Len(cIn) : cIn[i].risk_level = "MEDIUM" THEN "MEDIUM"
      ELSE "LOW"

\* C7 witness: the inputs [LOW, HIGH, MEDIUM] were combined to HIGH.
C7_Witness ==
  /\ cPc = "done"
  /\ Len(cIn) = 3
  /\ cIn[1].risk_level = "LOW"
  /\ cIn[2].risk_level = "HIGH"
  /\ cIn[3].risk_level = "MEDIUM"
  /\ cOut.risk_level = "HIGH"

\* C8: combining exactly one assessment returns it unchanged in every field.
C8_CombinerIdentity ==
  (cPc = "done" /\ Len(cIn) = 1) => cOut = cIn[1]

\* C8 witness: a single assessment whose risk factors repeat a string came
\* back with the repetition still in it.
C8_Witness ==
  /\ cPc = "done"
  /\ Len(cIn) = 1
  /\ ~NoRepeats(cIn[1].risk_factors)
  /\ cOut.risk_factors = cIn[1].risk_factors

\* C9 as stated: for every non-empty list the combined risk_factors and
\* reviewer_focus_areas hold every string of any input, no other string, and
\* each string exactly once.
C9_DeduplicatedUnion ==
  (cPc = "done" /\ Len(cIn) >= 1) =>
    /\ ElementsOf(cOut.risk_factors)
         = UNION {ElementsOf(cIn[i].risk_factors) : i \in 1..Len(cIn)}
    /\ ElementsOf(cOut.reviewer_focus_areas)
         = UNION {ElementsOf(cIn[i].reviewer_focus_areas) : i \in 1..Len(cIn)}
    /\ NoRepeats(cOut.risk_factors)
    /\ NoRepeats(cOut.reviewer_focus_areas)

\* C9 amended: for every non-empty list the combined risk_factors and
\* reviewer_focus_areas hold every string of any input and no other string;
\* each string occurs exactly once when two or more assessments are combined
\* (a single assessment keeps its lists as they are, repetitions included).
C9_DeduplicatedUnionOfSeveral ==
  (cPc = "done" /\ Len(cIn) >= 1) =>
    /\ ElementsOf(cOut.risk_factors)
         = UNION {ElementsOf(cIn[i].risk_factors) : i \in 1..Len(cIn)}
    /\ ElementsOf(cOut.reviewer_focus_areas)
         = UNION {ElementsOf(cIn[i].reviewer_focus_areas) : i \in 1..Len(cIn)}
    /\ Len(cIn) >= 2 => /\ NoRepeats(cOut.risk_factors)
                        /\ NoRepeats(cOut.reviewer_focus_areas)

\* C9 witness: two assessments sharing a risk factor were combined and the
\* factor is in the result once.
C9_Witness ==
  /\ cPc = "done"
  /\ Len(cIn) = 2
  /\ "f1" \in ElementsOf(cIn[1].risk_factors)
  /\ "f1" \in ElementsOf(cIn[2].risk_factors)
  /\ Cardinality({k \in 1..Len(cOut.risk_factors) : cOut.risk_factors[k] = "f1"}) = 1

\* C10: the combined missing_tests is true exactly when at least one input
\* has missing_tests true.
C10_MissingTestsOr ==
  (cPc = "done" /\ Len(cIn) >= 1) =>
    (cOut.missing_tests = TRUE
       <=> \E i \in 1..Len(cIn) : cIn[i].missing_tests = TRUE)

\* C10 witness: only the first of three inputs misses tests and the combined
\* assessment misses tests.
C10_Witness ==
  /\ cPc = "done"
  /\ Len(cIn) = 3
  /\ cIn[1].missing_tests
  /\ ~cIn[2].missing_tests
  /\ ~cIn[3].missing_tests
  /\ cOut.missing_tests

migrationRiskOrder(risk) ==
  CASE risk = "NONE" -> 0 [] risk = "LOW" -> 1 [] risk = "HIGH" -> 2

\* C11: for every non-empty list the combined migration_risk is the maximum
\* of the inputs' migration_risk under NONE < LOW < HIGH, and it is NONE
\* exactly when every input is NONE.
C11_MigrationRiskMax ==
  (cPc = "done" /\ Len(cIn) >= 1) =>
    /\ \E i \in 1..Len(cIn) : cIn[i].migration_risk = cOut.migration_risk
    /\ \A i \in 1..Len(cIn) :
         migrationRiskOrder(cIn[i].migration_risk)
           <= migrationRiskOrder(cOut.migration_risk)
    /\ (cOut.migration_risk = "NONE"
          <=> \A i \in 1..Len(cIn) : cIn[i].migration_risk = "NONE")

\* C11 witness: the inputs' migration risks [LOW, HIGH, NONE] were combined
\* to HIGH.
C11_Witness ==
  /\ cPc = "done"
  /\ Len(cIn) = 3
  /\ cIn[1].migration_risk = "LOW"
  /\ cIn[2].migration_risk = "HIGH"
  /\ cIn[3].migration_risk = "NONE"
  /\ cOut.migration_risk = "HIGH"

\* the first position of the list that holds the maximum risk_level
FirstHighest(assessments) ==
  CHOOSE i \in 1..Len(assessments) :
    /\ \A k \in 1..Len(assessments) :
         riskLevelOrder(assessments[k].risk_level)
           <= riskLevelOrder(assessments[i].risk_level)
    /\ \A k \in 1..(i - 1) :
         riskLevelOrder(assessments[k].risk_level)
           < riskLevelOrder(assessments[i].risk_level)

\* C12: when two or more assessments are combined, the combined summary is
\* "Analyzed <n> file chunks. " followed by the summary of the first input,
\* in list order, whose risk_level is the maximum; a later input of equal
\* level never replaces it.
C12_SummarySelection ==
  (cPc = "done" /\ Len(cIn) >= 2) =>
    cOut.risk_summary =
      <<"Analyzed ", ToString(Len(cIn)), " file chunks. ">>
        \o cIn[FirstHighest(cIn)].risk_summary

\* C12 witness: the second and the third of three inputs share the maximum
\* level with different summaries, and the combined summary is built from
\* the second.
C12_Witness ==
  /\ cPc = "done"
  /\ Len(cIn) = 3
  /\ cIn[1].risk_level = "LOW"
  /\ cIn[2].risk_level = "HIGH"
  /\ cIn[3].risk_level = "HIGH"
  /\ cIn[2].risk_summary # cIn[3].risk_summary
  /\ cOut.risk_summary = <<"Analyzed ", "3", " file chunks. ">>
                           \o cIn[2].risk_summary

\* the list with its assessments in another order
Reordered(seq, order) == [k \in 1..Len(seq) |-> seq[order[k]]]

\* the fields of a combined assessment that C13 compares, the two lists as
\* sets
SameUpToListOrder(a, b) ==
  /\ a.risk_level = b.risk_level
  /\ a.missing_tests = b.missing_tests
  /\ a.migration_risk = b.migration_risk
  /\ ElementsOf(a.risk_factors) = ElementsOf(b.risk_factors)
  /\ ElementsOf(a.reviewer_focus_areas) = ElementsOf(b.reviewer_focus_areas)

\* C13 as stated: for every non-empty list and every permutation of it the
\* combiner produces the same risk_level, summary, missing_tests,
\* migration_risk and the same sets of risk_factors and reviewer_focus_areas.
C13_OrderIndependence ==
  (cPc = "done" /\ Len(cIn) >= 1) =>
    \A order \in Permutations(1..Len(cIn)) :
      LET combined == combineAssessments(Reordered(cIn, order))
      IN /\ SameUpToListOrder(combined, cOut)
         /\ combined.risk_summary = cOut.risk_summary

\* the list with the assessments at positions j and k exchanged
Exchanged(seq, j, k) ==
  [i \in 1..Len(seq) |->
     IF i = j THEN seq[k] ELSE IF i = k THEN seq[j] ELSE seq[i]]

\* C13 amended: for every non-empty list and every permutation of it the
\* combiner produces the same risk_level, missing_tests, migration_risk and
\* the same sets of risk_factors and reviewer_focus_areas; the summary is the
\* same when the inputs of maximum risk_level all carry the same summary, and
\* otherwise it is that of the first of them in list order.  Stated for the
\* exchange of any two elements of any list: every permutation is a
\* composition of exchanges, and every list is checked.
C13_OrderIndependenceButSummary ==
  (cPc = "done" /\ Len(cIn) >= 1) =>
    LET oneSummary ==
          \A j, k \in 1..Len(cIn) :
            (cIn[j].risk_level = cOut.risk_level
               /\ cIn[k].risk_level = cOut.risk_level)
              => cIn[j].risk_summary = cIn[k].risk_summary
    IN \A j, k \in 1..Len(cIn) :
         j < k =>
           LET combined == combineAssessments(Exchanged(cIn, j, k))
           IN /\ SameUpToListOrder(combined, cOut)
              /\ oneSummary => combined.risk_summary = cOut.risk_summary

\* C13 witness: three inputs of different levels, flags and lists, the
\* highest last, were combined: every other order gives the same assessment.
C13_Witness ==
  /\ cPc = "done"
  /\ Len(cIn) = 3
  /\ cIn[1].risk_level = "LOW"
  /\ cIn[2].risk_level = "MEDIUM"
  /\ cIn[3].risk_level = "HIGH"
  /\ cIn[1].migration_risk = "HIGH"
  /\ cIn[3].migration_risk = "NONE"
  /\ cIn[1].missing_tests /\ ~cIn[3].missing_tests
  /\ cIn[1].risk_factors # cIn[3].risk_factors
  /\ \A order \in Permutations(1..3) :
       combineAssessments(Reordered(cIn, order)).risk_level = "HIGH"
  /\ cOut.risk_level = "HIGH" /\ cOut.migration_risk = "HIGH"

----------------------------------------------------------------------------
(* Errors (src/src/types/errors.ts) *)

\* An Error is a record of its message, a sequence of text fragments, and of
\* its status and response.status (NoStatus when the property is absent).
\* Every other JavaScript value is a record with its type.
NoStatus == 0

MakeError(message) ==
  [message |-> message, status |-> NoStatus, responseStatus |-> NoStatus]

\* error instanceof Error
isError(value) == "type" \notin DOMAIN value

\* String.prototype.toLowerCase on one fragment
LowerFragment(t) ==
  CASE t = "Request too large" -> "request too large"
    [] t = "413 Request Too Large" -> "413 request too large"
    [] t = "TPM" -> "tpm"
    [] t = "Tokens Per Minute" -> "tokens per minute"
    [] t = "Too Large" -> "too large"
    [] t = "HTTP 4130" -> "http 4130"
    [] OTHER -> t

toLowerCase(message) == [k \in 1..Len(message) |-> LowerFragment(message[k])]

\* the keyword is the fragment or lies inside it
FragmentIncludes(fragment, keyword) ==
  \/ fragment = keyword
  \/ fragment \in {"Request too large", "request too large"}
       /\ keyword = "too large"
  \/ fragment = "413 request too large"
       /\ keyword \in {"413", "request too large", "too large"}
  \/ fragment \in {"HTTP 4130", "http 4130", "413 Request Too Large"}
       /\ keyword = "413"

\* String.prototype.includes on a message
MessageIncludes(message, keyword) ==
  \E k \in 1..Len(message) : FragmentIncludes(message[k], keyword)

\* Mutant: only the error's own status makes it an API error
isLLMApiError_StatusOnly(error) ==
  /\ isError(error)
  /\ error.status # NoStatus

isLLMApiError(error) ==
  /\ isError(error)
  /\ (error.status # NoStatus \/ error.responseStatus # NoStatus)

isSizeLimitError(error) ==
  LET errorMessage == toLowerCase(error.message)
      hasLimitKeyword ==
        \/ MessageIncludes(errorMessage, "413")
        \/ MessageIncludes(errorMessage, "request too large")
        \/ MessageIncludes(errorMessage, "tokens per minute")
        \/ MessageIncludes(errorMessage, "tpm")
        \/ MessageIncludes(errorMessage, "too large")
  IN IF ~isError(error) THEN FALSE
     ELSE IF hasLimitKeyword THEN TRUE
     ELSE IF isLLMApiError(error)
     THEN (IF error.status # NoStatus THEN error.status
           ELSE error.responseStatus) = 413
     ELSE FALSE

----------------------------------------------------------------------------
(* analyzeDiff *)

Min(a, b) == IF a < b THEN a ELSE b
Max(a, b) == IF a > b THEN a ELSE b

getMaxDiffSize(env) ==
  IF env > 0 THEN env * BytesPerKB ELSE DEFAULT_MAX_DIFF_SIZE

\* Mutant: the chunk size is 5KB whatever the hard maximum is
safeChunkSize_Fixed(maxDiffSize) == 5 * BytesPerKB

\* Math.min(maxDiffSize, 5 * 1024)
safeChunkSize(maxDiffSize) == Min(maxDiffSize, 5 * BytesPerKB)

\* Math.max(safeChunkSize / 4, 2 * 1024); the budget is only ever compared
\* with whole sizes, so the quotient's fraction is immaterial
smallerChunkSize(safe) == Max(safe \div 4, 2 * BytesPerKB)

Return(value) == [kind |-> "return", value |-> value]
Throw(error) == [kind |-> "throw", error |-> error]

\* the errors analyzeDiff creates itself
EmptyDiffError == MakeError(<<"Diff cannot be empty">>)
SplitFailedError == MakeError(<<"Failed to split diff into chunks">>)
NoResponseError == MakeError(<<"No response from LLM">>)
TooLargeDisabledError(diffSize, maxDiffSize) ==
  MakeError(<<"Diff is ", "too large", " (", ToString(RoundKB(diffSize)),
              "KB). Maximum size is ", ToString(maxDiffSize \div BytesPerKB),
              "KB to avoid API token limits. Chunking is disabled.">>)
TooLargeForApiError(diffSize) ==
  MakeError(<<"Diff is ", "too large", " for the LLM API. Current size: ",
              ToString(RoundKB(diffSize)),
              "KB. The API rejected this size due to token limits.">>)

\* what the runtime throws when the call stack is exhausted
StackOverflowError == MakeError(<<"Maximum call stack size exceeded">>)

\* the errors the completion client throws
ClientErrors ==
  { [message |-> <<"Payload rejected">>,
     status |-> NoStatus, responseStatus |-> 413],
    [message |-> <<"Rate limit reached: ", "Request too large", " on ",
                   "tokens per minute", " (", "TPM", ")">>,
     status |-> 429, responseStatus |-> NoStatus],
    [message |-> <<"Incorrect API key provided">>,
     status |-> 401, responseStatus |-> NoStatus] }

\* the assessments a schema-valid completion response carries
ClientAssessments ==
  { [risk_level |-> "LOW", risk_summary |-> <<"s1">>, risk_factors |-> <<>>,
     reviewer_focus_areas |-> <<"a1">>,
     missing_tests |-> FALSE, migration_risk |-> "NONE"],
    [risk_level |-> "HIGH", risk_summary |-> <<"s2">>,
     risk_factors |-> <<"f2", "f1">>, reviewer_focus_areas |-> <<"a2">>,
     missing_tests |-> TRUE, migration_risk |-> "HIGH"] }

\* JavaScript values as JSON.parse produces them; an object is a record of
\* its keys
JsString(str) == [type |-> "string", str |-> str]
JsBoolean(bool) == [type |-> "boolean", bool |-> bool]
JsNumber(num) == [type |-> "number", num |-> num]
JsNull == [type |-> "null"]
JsUndefined == [type |-> "undefined"]
JsArray(items) == [type |-> "array", items |-> items]
JsObject(fields) == [type |-> "object", fields |-> fields]

\* the JavaScript object of an assessment
AssessmentObject(a) ==
  JsObject(
    [risk_level |-> JsString(a.risk_level),
     risk_summary |-> JsString(a.risk_summary),
     risk_factors |->
       JsArray([k \in 1..Len(a.risk_factors) |-> JsString(a.risk_factors[k])]),
     reviewer_focus_areas |->
       JsArray([k \in 1..Len(a.reviewer_focus_areas) |->
                  JsString(a.reviewer_focus_areas[k])]),
     missing_tests |-> JsBoolean(a.missing_tests),
     migration_risk |-> JsString(a.migration_risk)])

\* RiskSchema: the keys of z.object in declaration order, each with its type
RiskSchema ==
  << [key |-> "risk_level", type |-> "enum", options |-> RiskLevels],
     [key |-> "risk_summary", type |-> "string", options |-> {}],
     [key |-> "risk_factors", type |-> "array", options |-> {}],
     [key |-> "reviewer_focus_areas", type |-> "array", options |-> {}],
     [key |-> "missing_tests", type |-> "boolean", options |-> {}],
     [key |-> "migration_risk", type |-> "enum", options |-> MigrationRisks] >>

InvalidType(expected, received) ==
  <<"Expected ", expected, ", received ", received>>

\* Mutant: z.coerce.boolean() takes any value for missing_tests
FieldIssues_CoerceBoolean(field, fields) ==
  IF field.key \notin DOMAIN fields THEN <<"Required">>
  ELSE LET value == fields[field.key]
       IN CASE field.type = "enum" ->
                 IF value.type # "string"
                 THEN InvalidType("one of the options", value.type)
                 ELSE IF value.str \notin field.options
                 THEN <<"Invalid enum", " value, received ", value.str>>
                 ELSE <<>>
            [] field.type = "array" ->
                 IF value.type # "array" THEN InvalidType("array", value.type)
                 ELSE IF \E k \in 1..Len(value.items) :
                           value.items[k].type # "string"
                 THEN InvalidType("string", "another type")
                 ELSE <<>>
            [] field.type = "boolean" -> <<>>
            [] OTHER ->
                 IF value.type # field.type
                 THEN InvalidType(field.type, value.type)
                 ELSE <<>>

\* the issues zod reports for one key of the schema
FieldIssues(field, fields) ==
  IF field.key \notin DOMAIN fields THEN <<"Required">>
  ELSE LET value == fields[field.key]
       IN CASE field.type = "enum" ->
                 IF value.type # "string"
                 THEN InvalidType("one of the options", value.type)
                 ELSE IF value.str \notin field.options
                 THEN <<"Invalid enum", " value, received ", value.str>>
                 ELSE <<>>
            [] field.type = "array" ->
                 IF value.type # "array" THEN InvalidType("array", value.type)
                 ELSE IF \E k \in 1..Len(value.items) :
                           value.items[k].type # "string"
                 THEN InvalidType("string", "another type")
                 ELSE <<>>
            [] OTHER ->
                 IF value.type # field.type
                 THEN InvalidType(field.type, value.type)
                 ELSE <<>>

RECURSIVE SchemaIssues(_, _)
SchemaIssues(fields, k) ==
  IF k > Len(RiskSchema) THEN <<>>
  ELSE FieldIssues(RiskSchema[k], fields) \o SchemaIssues(fields, k + 1)

\* the value of one key in the object zod returns
Unwrapped(value) ==
  CASE value.type = "string" -> value.str
    [] value.type = "boolean" -> value.bool
    [] value.type = "array" ->
         [k \in 1..Len(value.items) |-> value.items[k].str]

\* RiskSchema.parse: the issues, or the object of the schema's keys (keys the
\* schema does not name are dropped)
RiskSchemaParse(value) ==
  IF value.type # "object"
  THEN [success |-> FALSE, issues |-> InvalidType("object", value.type)]
  ELSE IF Len(SchemaIssues(value.fields, 1)) > 0
  THEN [success |-> FALSE, issues |-> SchemaIssues(value.fields, 1)]
  ELSE [success |-> TRUE,
        data |-> [risk_level |-> Unwrapped(value.fields.risk_level),
                  risk_summary |-> Unwrapped(value.fields.risk_summary),
                  risk_factors |-> Unwrapped(value.fields.risk_factors),
                  reviewer_focus_areas |->
                    Unwrapped(value.fields.reviewer_focus_areas),
                  missing_tests |-> Unwrapped(value.fields.missing_tests),
                  migration_risk |-> Unwrapped(value.fields.migration_risk)]]

\* A response content is a sequence of text fragments: the code fence, the
\* word json, newlines, JSON texts and other text.  The fence's three
\* backquotes are written as three quotes.
Fence == "'''"

LowJson == "{\"risk_level\":\"LOW\",...}"
HighJson == "{\"risk_level\":\"HIGH\",...}"
ExtraKeyJson == "{\"risk_level\":\"HIGH\",...,\"confidence\":\"high\"}"
NoSummaryJson == "{\"risk_level\":\"LOW\",\"risk_factors\":[],...}"
BadLevelJson == "{\"risk_level\":\"CRITICAL\",...}"
BadMigrationJson == "{...,\"migration_risk\":\"MEDIUM\"}"
StringFlagJson == "{...,\"missing_tests\":\"true\",...}"
ArrayJson == "[]"

AssessmentOfLevel(level) ==
  CHOOSE a \in ClientAssessments : a.risk_level = level

\* the JSON texts and the value JSON.parse gives each
JsonTexts ==
  LET low == AssessmentObject(AssessmentOfLevel("LOW")).fields
      high == AssessmentObject(AssessmentOfLevel("HIGH")).fields
  IN { [text |-> LowJson, value |-> JsObject(low)],
       [text |-> HighJson, value |-> JsObject(high)],
       [text |-> ExtraKeyJson,
        value |-> JsObject([k \in DOMAIN high \cup {"confidence"} |->
                              IF k = "confidence" THEN JsString("high")
                              ELSE high[k]])],
       [text |-> NoSummaryJson,
        value |-> JsObject([k \in DOMAIN low \ {"risk_summary"} |-> low[k]])],
       [text |-> BadLevelJson,
        value |-> JsObject([low EXCEPT !.risk_level = JsString("CRITICAL")])],
       [text |-> BadMigrationJson,
        value |-> JsObject([low EXCEPT !.migration_risk = JsString("MEDIUM")])],
       [text |-> StringFlagJson,
        value |-> JsObject([low EXCEPT !.missing_tests = JsString("true")])],
       [text |-> ArrayJson, value |-> JsArray(<<>>)] }

\* texts JSON.parse rejects
NonJsonTexts == {"not json", "{\"risk_level\":\"LOW\","}

\* JSON.parse: white space around the one JSON text is skipped
JSONparse(text) ==
  LET body == Trim(text)
  IN IF Len(body) = 1 /\ \E t \in JsonTexts : t.text = body[1]
     THEN [success |-> TRUE,
           value |-> (CHOOSE t \in JsonTexts : t.text = body[1]).value]
     ELSE [success |-> FALSE]

\* cleaned.replace: the fence at the start, then json and a newline if there
StripOpeningFence(text) ==
  IF ~StartsWith(text, <<Fence>>) THEN text
  ELSE LET a == Tail(text)
           b == IF StartsWith(a, <<"json">>) THEN Tail(a) ELSE a
       IN IF StartsWith(b, <<NL>>) THEN Tail(b) ELSE b

\* .replace: the fence at the end, with the newline before it if there
StripClosingFence(text) ==
  IF Len(text) = 0 \/ text[Len(text)] # Fence THEN text
  ELSE LET a == SubSeq(text, 1, Len(text) - 1)
       IN IF Len(a) > 0 /\ a[Len(a)] = NL THEN SubSeq(a, 1, Len(a) - 1)
          ELSE a

\* the error thrown when JSON.parse rejects the cleaned content
InvalidJsonError(content) ==
  MakeError(<<"Invalid JSON response: ", "Unexpected token", ". Content: ">>
            \o content \o <<"...">>)

\* the error thrown when RiskSchema.parse rejects the parsed value
ValidationFailedError(issues) ==
  MakeError(<<"Response validation failed: ">> \o issues)

\* Mutant: the content is parsed as it is, fences included
parseAndValidate_NoFenceStripping(content) ==
  LET parsed == JSONparse(Trim(content))
      result == RiskSchemaParse(parsed.value)
  IN IF ~parsed.success THEN Throw(InvalidJsonError(content))
     ELSE IF result.success THEN Return(result.data)
     ELSE Throw(ValidationFailedError(result.issues))

parseAndValidate(content) ==
  LET trimmed == Trim(content)
      cleaned == IF StartsWith(trimmed, <<Fence>>)
                 THEN StripClosingFence(StripOpeningFence(trimmed))
                 ELSE trimmed
      parsed == JSONparse(cleaned)
      result == RiskSchemaParse(parsed.value)
  IN IF ~parsed.success THEN Throw(InvalidJsonError(content))
     ELSE IF result.success THEN Return(result.data)
     ELSE Throw(ValidationFailedError(result.issues))

\* response contents that JSON.parse rejects
MalformedContents ==
  { <<"not json">>, <<"The diff is ", "too large", " to summarise">> }

\* the contents the completion client answers with: the two assessments as
\* JSON, one of them also inside code fences, one that lacks a key, and the
\* malformed ones
ClientContents ==
  { <<LowJson>>, <<HighJson>>, <<Fence, "json", NL, LowJson, NL, Fence>>,
    <<NoSummaryJson>> }
  \cup MalformedContents

\* what one completion call can do
ClientOutcomes ==
  {[kind |-> "content", content |-> c] : c \in ClientContents}
  \cup {[kind |-> "error", error |-> e] : e \in ClientErrors}
  \cup {[kind |-> "empty"]}

\* the error the try block of the direct path raises, if any
RaisedInTry(outcome) ==
  CASE outcome.kind = "error" -> outcome.error
    [] outcome.kind = "empty" -> NoResponseError
    [] outcome.kind = "content" -> parseAndValidate(outcome.content).error

\* Mutant: every error is wrapped with its message, a size error too
Rethrown_WrapOnly(error, diffSize) ==
  IF ~isError(error) THEN error
  ELSE MakeError(<<"Risk analysis failed: ">> \o error.message)

\* the catch block of the direct path: the error analyzeDiff throws instead
Rethrown(error, diffSize) ==
  IF ~isError(error) THEN error
  ELSE IF isSizeLimitError(error) THEN TooLargeForApiError(diffSize)
  ELSE IF MessageIncludes(error.message, "Required")
          \/ MessageIncludes(error.message, "Invalid enum")
  THEN MakeError(<<"Invalid response format from LLM: ">> \o error.message)
  ELSE MakeError(<<"Risk analysis failed: ">> \o error.message)

\* the response carries content that parseAndValidate accepts
Accepted(outcome) ==
  /\ outcome.kind = "content"
  /\ parseAndValidate(outcome.content).kind = "return"

\* Mutant: missing_tests of the returned assessment is forced to true
DirectResult_FlagTests(outcome, diffSize) ==
  IF Accepted(outcome)
  THEN Return([parseAndValidate(outcome.content).value
                 EXCEPT !.missing_tests = TRUE])
  ELSE Throw(Rethrown(RaisedInTry(outcome), diffSize))

\* the direct path from the completion call on
DirectResult(outcome, diffSize) ==
  IF Accepted(outcome) THEN parseAndValidate(outcome.content)
  ELSE Throw(Rethrown(RaisedInTry(outcome), diffSize))

\* how a completion call ended, as the client saw it
CallResult(outcome) ==
  CASE outcome.kind = "error" ->
         IF isSizeLimitError(outcome.error) THEN "size" ELSE "other"
    [] outcome.kind = "empty" -> "empty"
    [] outcome.kind = "content" ->
         IF Accepted(outcome) THEN "ok" ELSE "malformed"

\* the try block raised an error of the size/rate-limit class
RaisedSizeLimit(outcome) ==
  /\ ~Accepted(outcome)
  /\ isSizeLimitError(RaisedInTry(outcome))

\* the assessment a schema-valid response carries
ResponseAssessment(outcome) ==
  IF Accepted(outcome) THEN parseAndValidate(outcome.content).value
  ELSE NoAssessment

\* Mutant: every failure of a chunk is answered by splitting it further
chunkCatch_AlwaysSplit(error) == "split further"

\* lines 326-328 and 383-386: the catch around a chunk's nested call
chunkCatch(error) ==
  IF isSizeLimitError(error) THEN "split further" ELSE "rethrow"

\* Mutant: a sub-chunk's size error is re-thrown instead of skipped
subChunkCatch_Rethrow(error) == "rethrow"

\* lines 366-380: the catch around a sub-chunk's nested call
subChunkCatch(error) ==
  IF isSizeLimitError(error) THEN "skip" ELSE "rethrow"

\* Mutant: a diff as long as the hard maximum is refused too
exceedsMaxDiffSize_AtLeast(diffSize, maxDiffSize) == diffSize >= maxDiffSize

\* line 403: diffSize > maxDiffSize
exceedsMaxDiffSize(diffSize, maxDiffSize) == diffSize > maxDiffSize

\* Mutant: only the empty string is refused
IsEmptyInput_NoTrim(diff) == Len(diff) = 0

\* !input.diff || input.diff.trim().length === 0
IsEmptyInput(diff) == Len(diff) = 0 \/ Len(Trim(diff)) = 0

\* one analyzeDiff call in progress: its arguments, its position, and its
\* locals (safeChunkSize and smallerChunkSize are 0 until they are computed)
NewFrame(diff, enableChunking) ==
  [pc |-> "start", diff |-> diff, enableChunking |-> enableChunking,
   safeChunkSize |-> 0, chunks |-> <<>>, i |-> 1,
   smallerChunkSize |-> 0, subChunks |-> <<>>, j |-> 1,
   assessments |-> <<>>]

Top == stack[Len(stack)]
Pop == SubSeq(stack, 1, Len(stack) - 1)
SetTop(frame) == [stack EXCEPT ![Len(stack)] = frame]

\* one more run of the named method
Invoke(method) == [invoked EXCEPT ![method] = @ + 1]

\* the call returns or throws to its caller
Finish(outcome) == stack' = Pop /\ ret' = outcome

\* lines 275-304 and 402-414: validation, the size decision, the first split
Enter ==
  /\ Len(stack) > 0 /\ Top.pc = "start"
  /\ LET f == Top
         diffSize == Len(f.diff)
         maxDiffSize == getMaxDiffSize(envLimit)
         safe == safeChunkSize(maxDiffSize)
         chunks == splitDiffIntoChunks(f.diff, safe)
     IN IF IsEmptyInput(f.diff)
        THEN Finish(Throw(EmptyDiffError)) /\ UNCHANGED invoked
        ELSE IF diffSize > safe /\ f.enableChunking
        THEN /\ invoked' = Invoke("splitDiffIntoChunks")
             /\ IF Len(chunks) = 0
                THEN Finish(Throw(SplitFailedError))
                ELSE /\ stack' = SetTop([f EXCEPT !.pc = "chunks",
                                                  !.safeChunkSize = safe,
                                                  !.chunks = chunks, !.i = 1])
                     /\ UNCHANGED ret
        ELSE IF exceedsMaxDiffSize(diffSize, maxDiffSize)
        THEN /\ Finish(Throw(TooLargeDisabledError(diffSize, maxDiffSize)))
             /\ UNCHANGED invoked
        ELSE /\ stack' = SetTop([f EXCEPT !.pc = "call"])
             /\ UNCHANGED <<ret, invoked>>
  /\ UNCHANGED <<envLimit, input, calls>>
  /\ UNCHANGED <<splitVars, combineVars, parseVars, fallbackVars, classifyVars, cliVars, stdinVars>>

\* lines 416-468: the completion call ends and the call returns or throws
ClientRespond ==
  /\ Len(stack) > 0 /\ Top.pc = "call"
  /\ \E outcome \in ClientOutcomes :
       /\ Finish(DirectResult(outcome, Len(Top.diff)))
       /\ calls' = Append(calls, [diff |-> Top.diff,
                                  result |-> CallResult(outcome),
                                  raisedSizeLimit |-> RaisedSizeLimit(outcome),
                                  response |-> ResponseAssessment(outcome)])
  /\ UNCHANGED <<envLimit, input, invoked>>
  /\ UNCHANGED <<splitVars, combineVars, parseVars, fallbackVars, classifyVars, cliVars, stdinVars>>

\* the nested call analyzeDiff(piece, true); with the call stack exhausted it
\* throws inside the try block and the catch re-throws, not a size error
CallNested(f, piece, awaiting) ==
  IF Len(stack) < MaxDepth
  THEN /\ stack' = Append(SetTop([f EXCEPT !.pc = awaiting]),
                          NewFrame(piece, TRUE))
       /\ UNCHANGED ret
  ELSE Finish(Throw(StackOverflowError))

\* Mutant: the chunks are taken from the last to the first
chunkInput_Reversed(chunks, i) == chunks[Len(chunks) + 1 - i]

\* lines 314-320: the diff of chunkInput
chunkInput(chunks, i) == chunks[i]

\* lines 308-324 and 390-399: the head of the chunk loop and what follows it
ChunkLoop ==
  /\ Len(stack) > 0 /\ Top.pc = "chunks"
  /\ LET f == Top
     IN IF f.i <= Len(f.chunks)
        THEN /\ CallNested(f, chunkInput(f.chunks, f.i), "awaitChunk")
             /\ UNCHANGED invoked
        ELSE IF Len(f.assessments) = 0
        THEN /\ Finish(Return(createFallbackAssessment(Len(f.diff))))
             /\ invoked' = Invoke("createFallbackAssessment")
        ELSE /\ Finish(Return(combineAssessments(f.assessments)))
             /\ invoked' = Invoke("combineAssessments")
  /\ UNCHANGED <<envLimit, input, calls>>
  /\ UNCHANGED <<splitVars, combineVars, parseVars, fallbackVars, classifyVars, cliVars, stdinVars>>

\* lines 324-343 and 383-386: the nested call for chunk i has ended
ChunkReturn ==
  /\ Len(stack) > 0 /\ Top.pc = "awaitChunk" /\ ret.kind # "none"
  /\ LET f == Top
         safe == safeChunkSize(getMaxDiffSize(envLimit))
     IN IF ret.kind = "return"
        THEN /\ stack' = SetTop([f EXCEPT !.assessments = Append(@, ret.value),
                                          !.i = @ + 1, !.pc = "chunks"])
             /\ ret' = NoReturn
             /\ UNCHANGED invoked
        ELSE IF chunkCatch(ret.error) = "split further"
        THEN /\ stack' = SetTop([f EXCEPT
                           !.smallerChunkSize = smallerChunkSize(safe),
                           !.subChunks = splitDiffIntoChunks(f.chunks[f.i],
                                                             smallerChunkSize(safe)),
                           !.j = 1, !.pc = "subChunks"])
             /\ ret' = NoReturn
             /\ invoked' = Invoke("splitDiffIntoChunks")
        ELSE Finish(ret) /\ UNCHANGED invoked
  /\ UNCHANGED <<envLimit, input, calls>>
  /\ UNCHANGED <<splitVars, combineVars, parseVars, fallbackVars, classifyVars, cliVars, stdinVars>>

\* lines 345-364: the head of the sub-chunk loop
SubChunkLoop ==
  /\ Len(stack) > 0 /\ Top.pc = "subChunks"
  /\ LET f == Top
     IN IF f.j <= Len(f.subChunks)
        THEN CallNested(f, f.subChunks[f.j], "awaitSub")
        ELSE /\ stack' = SetTop([f EXCEPT !.i = @ + 1, !.pc = "chunks"])
             /\ UNCHANGED ret
  /\ UNCHANGED <<envLimit, input, calls, invoked>>
  /\ UNCHANGED <<splitVars, combineVars, parseVars, fallbackVars, classifyVars, cliVars, stdinVars>>

\* lines 361-381: the nested call for sub-chunk j has ended
SubChunkReturn ==
  /\ Len(stack) > 0 /\ Top.pc = "awaitSub" /\ ret.kind # "none"
  /\ LET f == Top
     IN IF ret.kind = "return"
        THEN /\ stack' = SetTop([f EXCEPT !.assessments = Append(@, ret.value),
                                          !.j = @ + 1, !.pc = "subChunks"])
             /\ ret' = NoReturn
        ELSE IF subChunkCatch(ret.error) = "skip"
        THEN /\ stack' = SetTop([f EXCEPT !.j = @ + 1, !.pc = "subChunks"])
             /\ ret' = NoReturn
        ELSE Finish(ret)
  /\ UNCHANGED <<envLimit, input, calls, invoked>>
  /\ UNCHANGED <<splitVars, combineVars, parseVars, fallbackVars, classifyVars, cliVars, stdinVars>>

\* the diffs handed to analyzeDiff: lines of "d" characters, a line may start
\* with the marker prefix, and blank lines; "g" stands nowhere else, where it
\* would be one more content character like "d"
AnalyzeDiffs(n) ==
  {s \in StringsOver(AnalyzeAlphabet, n) :
     \A k \in 1..Len(s) :
       s[k] = "g" => /\ k > 1
                     /\ s[k - 1] = "d"
                     /\ (k = 2 \/ s[k - 2] = NL)}

Init ==
  /\ envLimit \in 0..MaxEnvKB
  /\ input \in [diff : AnalyzeDiffs(MaxDiffLen),
               enableChunking : BOOLEAN]
  /\ stack = <<NewFrame(input.diff, input.enableChunking)>>
  /\ ret = NoReturn
  /\ calls = <<>>
  /\ invoked = NothingInvoked
  /\ SplitIdle
  /\ CombineIdle
  /\ ParseIdle
  /\ FallbackIdle
  /\ ClassifyIdle
  /\ CliIdle
  /\ StdinIdle

Next ==
  \/ Enter
  \/ ClientRespond
  \/ ChunkLoop
  \/ ChunkReturn
  \/ SubChunkLoop
  \/ SubChunkReturn

Spec == Init /\ [][Next]_vars

\* the top-level call has returned or thrown
Done == Len(stack) = 0 /\ ret.kind # "none"

TypeOK ==
  /\ Len(stack) <= MaxDepth
  /\ ret.kind \in {"none", "return", "throw"}
  /\ \A k \in 1..Len(stack) :
       stack[k].pc \in {"start", "call", "chunks", "awaitChunk",
                        "subChunks", "awaitSub"}

----------------------------------------------------------------------------
(* Claims about analyzeDiff, checked under Spec *)

\* the chunk budget of the configuration
ChunkBudget == safeChunkSize(getMaxDiffSize(envLimit))

\* the top-level call was given a diff it has to chunk
Chunked ==
  /\ input.enableChunking
  /\ HasContent(input.diff)
  /\ Len(input.diff) > ChunkBudget

\* C1: with chunking enabled a top-level analyzeDiff call finishes after a
\* bounded number of nested analyzeDiff levels, whatever the diff and the
\* configuration: the nesting stops by itself, it is never the exhausted
\* call stack that ends it.
C1_BoundedRecursion ==
  (input.enableChunking /\ HasContent(input.diff) /\ ret.kind = "throw") =>
    ret.error # StackOverflowError

\* C2: with chunking enabled and a diff larger than the chunk budget, when
\* every completion call made for a chunk or a sub-chunk failed with a
\* size/rate-limit error, analyzeDiff does not throw but returns the fallback
\* assessment (MEDIUM, missing_tests, migration_risk NONE).
C2_FallbackOnTotalFailure ==
  (Done /\ Chunked /\ \A k \in 1..Len(calls) : calls[k].result = "size") =>
    /\ ret.kind = "return"
    /\ ret.value = createFallbackAssessment(Len(input.diff))
    /\ ret.value.risk_level = "MEDIUM"
    /\ ret.value.missing_tests = TRUE
    /\ ret.value.migration_risk = "NONE"

\* C3 as stated: with chunking enabled and a non-empty diff of any size, sent
\* directly or chunked, a size/rate-limit failure of the completion client is
\* never what the top-level call throws.
C3_SizeFailureNeverThrown ==
  (Done /\ input.enableChunking /\ HasContent(input.diff)
     /\ ret.kind = "throw" /\ Len(calls) > 0) =>
    ~(calls[Len(calls)].result = "size" /\ isSizeLimitError(ret.error))

\* C3 amended: with chunking enabled and a diff larger than the chunk budget
\* (a chunked diff), the top-level call never throws an error of the
\* size/rate-limit class: such a failure of a chunk's or sub-chunk's call is
\* recovered by splitting further, by skipping or by the fallback.  A diff
\* within the chunk budget is sent directly, and a size/rate-limit failure of
\* that call is thrown to the caller as a "too large" error.
C3_SizeFailureNeverThrownWhenChunked ==
  /\ (Done /\ Chunked /\ ret.kind = "throw") => ~isSizeLimitError(ret.error)
  /\ (Done /\ input.enableChunking /\ HasContent(input.diff)
        /\ Len(input.diff) <= ChunkBudget
        /\ Len(calls) = 1 /\ calls[1].result = "size") =>
       ret = Throw(TooLargeForApiError(Len(input.diff)))

\* C3 witness: a chunked diff whose first chunk's call and sub-chunk's call
\* failed with size errors still came back with an assessment.
C3_Witness ==
  /\ Done /\ Chunked
  /\ Len(calls) >= 3
  /\ calls[1].result = "size"
  /\ calls[2].result = "size"
  /\ calls[Len(calls)].result = "ok"
  /\ ret.kind = "return"

\* the error is the hard-maximum rejection of some diff
IsHardMaximumRejection(error) ==
  \E n \in 0..(MaxDiffLen + 1) :
    error = TooLargeDisabledError(n, getMaxDiffSize(envLimit))

\* C21: with chunking disabled, a diff (with content) longer than the hard
\* maximum is rejected with the "too large ... Chunking is disabled" error
\* before any completion call is made and without splitting, while one at or
\* below the hard maximum is sent in a single call, whole; with chunking
\* enabled no call of the analysis, nested ones included, ever ends with the
\* hard-maximum rejection, because a diff longer than the hard maximum is
\* longer than the chunk budget and is chunked.
C21_HardMaximumRejection ==
  /\ (~input.enableChunking /\ HasContent(input.diff)
        /\ Len(input.diff) > getMaxDiffSize(envLimit)) =>
       /\ calls = <<>>
       /\ invoked = NothingInvoked
       /\ \/ Len(stack) = 1 /\ Top.pc = "start" /\ ret = NoReturn
          \/ /\ Len(stack) = 0
             /\ ret = Throw(TooLargeDisabledError(Len(input.diff),
                                                  getMaxDiffSize(envLimit)))
  /\ (~input.enableChunking /\ HasContent(input.diff)
        /\ Len(input.diff) <= getMaxDiffSize(envLimit)) =>
       /\ Len(stack) <= 1
       /\ invoked = NothingInvoked
       /\ ret.kind = "throw" => ~IsHardMaximumRejection(ret.error)
       /\ Done => Len(calls) = 1 /\ calls[1].diff = input.diff
  /\ input.enableChunking =>
       /\ ret.kind = "throw" => ~IsHardMaximumRejection(ret.error)
       /\ (Len(input.diff) > getMaxDiffSize(envLimit)
             /\ HasContent(input.diff) /\ Len(stack) = 0)
            => invoked.splitDiffIntoChunks > 0

\* C21 witness: with chunking disabled and a hard maximum of 3KB, a diff of
\* 4KB was rejected without a call; the error names both sizes.
C21_Witness ==
  /\ Done
  /\ ~input.enableChunking
  /\ envLimit = 3
  /\ Len(input.diff) = 4
  /\ HasContent(input.diff)
  /\ calls = <<>>
  /\ ret.kind = "throw"
  /\ MessageIncludes(ret.error.message, "too large")
  /\ ret.error.message[4] = "4"
  /\ ret.error.message[6] = "3"

\* C15: for every diff with content whose length is at most the chunk budget,
\* analyzeDiff makes exactly one completion call, for the diff itself, runs
\* neither the splitter nor the combiner (nor the fallback), and when the
\* response is schema-valid it returns exactly the assessment parsed from
\* that response.
C15_DirectPath ==
  (Done /\ HasContent(input.diff) /\ Len(input.diff) <= ChunkBudget) =>
    /\ Len(calls) = 1
    /\ calls[1].diff = input.diff
    /\ invoked = NothingInvoked
    /\ calls[1].response # NoAssessment => ret = Return(calls[1].response)
    /\ ret.kind = "return" => /\ calls[1].result = "ok"
                              /\ ret.value \in ClientAssessments

\* C15 witness: a diff of several lines, exactly as long as the chunk budget,
\* was sent in one call and the response's LOW assessment came back.
C15_Witness ==
  /\ Done
  /\ input.enableChunking
  /\ Len(input.diff) = ChunkBudget
  /\ Len(SplitLines(input.diff)) >= 2
  /\ Len(calls) = 1
  /\ calls[1].result = "ok"
  /\ ret.kind = "return"
  /\ ret.value.risk_level = "LOW"
  /\ ret.value.missing_tests = FALSE

\* C16: analyzeDiff on an empty or whitespace-only diff, of any length and
\* with chunking enabled or not, throws "Diff cannot be empty" in its first
\* step: no completion call is made, the splitter is not run, and neither a
\* retry nor the fallback or the combiner follows.
C16_InputError ==
  ~HasContent(input.diff) =>
    /\ calls = <<>>
    /\ invoked = NothingInvoked
    /\ \/ Len(stack) = 1 /\ Top.pc = "start" /\ ret = NoReturn
       \/ Len(stack) = 0 /\ ret = Throw(EmptyDiffError)

\* C16 witness: a diff of three newlines, longer than the chunk budget, was
\* refused with chunking enabled.
C16_Witness ==
  /\ Done
  /\ input.diff = <<NL, NL, NL>>
  /\ input.enableChunking
  /\ Len(input.diff) > ChunkBudget
  /\ ret = Throw(EmptyDiffError)
  /\ calls = <<>>

\* C17: during chunked analysis, once the completion call of a chunk or
\* sub-chunk has failed with an error that is not of the size/rate-limit
\* class, no further completion call is made (the failed call stays the last
\* one while the error travels up), and the top-level call ends by throwing
\* an error that is not of the size class, not by returning a combined or a
\* fallback assessment, whatever earlier chunks gave.
C17_NonSizeFailureAborts ==
  Chunked =>
    \A k \in 1..Len(calls) :
      calls[k].result = "other" =>
        /\ k = Len(calls)
        /\ Done => /\ ret.kind = "throw"
                   /\ ~isSizeLimitError(ret.error)
                   /\ MessageIncludes(ret.error.message, "Risk analysis failed: ")

\* C17 witness: the first chunk was analysed, the second failed for its size
\* and was split, its sub-chunk's call failed with an authentication error,
\* and the top-level call threw.
C17_Witness ==
  /\ Done /\ Chunked
  /\ Len(calls) = 3
  /\ calls[1].result = "ok"
  /\ calls[2].result = "size"
  /\ calls[3].result = "other"
  /\ ret.kind = "throw"
  /\ MessageIncludes(ret.error.message, "Incorrect API key provided")

\* C18: during chunked analysis a completion response that is not valid JSON
\* or fails RiskSchema validation, whatever its text, is a hard failure: the
\* chunk is not split further and no other completion call follows (the call
\* stays the last one), and the top-level call ends by throwing.
C18_ValidationErrorsNeverResplit ==
  Chunked =>
    \A k \in 1..Len(calls) :
      calls[k].result = "malformed" =>
        /\ k = Len(calls)
        /\ Done => ret.kind = "throw"

\* C20 as stated: for every configuration of the hard maximum (a positive
\* MAX_DIFF_SIZE_KB or the default) the chunk budget analyzeDiff uses is
\* strictly smaller than the hard maximum.
C20_ChunkBudgetBelowMaximum ==
  ChunkBudget < getMaxDiffSize(envLimit)

\* C20 amended: for every configuration the chunk budget is the smaller of
\* the hard maximum and 5KB: it never exceeds the hard maximum, it is
\* strictly smaller exactly when the hard maximum is above 5KB (the default
\* 30KB included) and equal to it otherwise, and a diff is chunked exactly
\* when chunking is enabled and it is longer than that budget.
C20_ChunkBudgetAtMostMaximum ==
  /\ ChunkBudget <= getMaxDiffSize(envLimit)
  /\ ChunkBudget <= 5 * BytesPerKB
  /\ ChunkBudget < getMaxDiffSize(envLimit)
       <=> getMaxDiffSize(envLimit) > 5 * BytesPerKB
  /\ envLimit = 0 => ChunkBudget < getMaxDiffSize(envLimit)
  /\ (Done /\ HasContent(input.diff)) =>
       (invoked.splitDiffIntoChunks > 0
          <=> (input.enableChunking /\ Len(input.diff) > ChunkBudget))

\* C20 witness: with a hard maximum of 6KB the budget is 5KB, strictly
\* smaller, and a diff within it was sent directly.
C20_Witness ==
  /\ Done
  /\ envLimit = 6
  /\ ChunkBudget = 5 * BytesPerKB
  /\ ChunkBudget < getMaxDiffSize(envLimit)
  /\ HasContent(input.diff)
  /\ invoked.splitDiffIntoChunks = 0
  /\ Len(calls) = 1

\* the frame has re-split the chunk it is at after a size/rate-limit error
HasResplit(frame) == frame.pc \in {"subChunks", "awaitSub"}

\* C24: when a chunk's analysis fails with a size/rate-limit error the chunk is
\* re-split with budget max(chunk budget / 4, 2KB), and for every
\* configuration of the hard maximum that budget is strictly smaller than the
\* budget that produced the failing chunk.
C24_ShrinkingResplitBudget ==
  \A k \in 1..Len(stack) :
    HasResplit(stack[k]) =>
      /\ stack[k].smallerChunkSize
           = Max(stack[k].safeChunkSize \div 4, 2 * BytesPerKB)
      /\ stack[k].smallerChunkSize < stack[k].safeChunkSize

\* C25: whenever a chunk that failed with a size/rate-limit error is re-split,
\* every resulting sub-chunk is strictly shorter than the failed chunk, so the
\* text of the failed chunk is not sent to the completion client a second
\* time.
C25_SplitStrictlyReduces ==
  \A k \in 1..Len(stack) :
    HasResplit(stack[k]) =>
      \A j \in 1..Len(stack[k].subChunks) :
        Len(stack[k].subChunks[j]) < Len(stack[k].chunks[stack[k].i])

\* the chunks of the top-level diff, and the sub-chunks a chunk is re-split
\* into
TopChunks == splitDiffIntoChunks(input.diff, ChunkBudget)
SubChunksOf(chunk) == splitDiffIntoChunks(chunk, smallerChunkSize(ChunkBudget))

\* the call succeeded, or failed with an error of the size/rate-limit class
Succeeded(call) == call.result = "ok"
SizeFailed(call) == call.result # "ok" /\ call.raisedSizeLimit

\* the calls from the k-th on are those for the chunks from the i-th on, in
\* diff order: one call per chunk and, when that call failed with a size
\* error, one call per sub-chunk of the chunk, each ending in an assessment
\* or in a size error
RECURSIVE CoversFrom(_, _, _)
CoversFrom(chunks, i, k) ==
  IF i > Len(chunks) THEN k = Len(calls) + 1
  ELSE /\ k <= Len(calls)
       /\ calls[k].diff = chunks[i]
       /\ IF Succeeded(calls[k]) THEN CoversFrom(chunks, i + 1, k + 1)
          ELSE LET subs == SubChunksOf(chunks[i])
               IN /\ SizeFailed(calls[k])
                  /\ k + Len(subs) <= Len(calls)
                  /\ \A j \in 1..Len(subs) :
                       /\ calls[k + j].diff = subs[j]
                       /\ Succeeded(calls[k + j]) \/ SizeFailed(calls[k + j])
                  /\ CoversFrom(chunks, i + 1, k + Len(subs) + 1)

\* the assessments of the successful calls, in call order
SuccessfulAssessments ==
  LET ok == SelectSeq(calls, Succeeded)
  IN [k \in 1..Len(ok) |-> ok[k].response]

\* the call of a chunk and then the call of one of its sub-chunks failed with
\* size errors: the sub-chunk was skipped
SubChunkSkipped ==
  \E a, b \in 1..Len(calls) :
    /\ a < b
    /\ SizeFailed(calls[a])
    /\ SizeFailed(calls[b])
    /\ Includes(SubChunksOf(calls[a].diff), calls[b].diff)

\* C26: during chunked analysis, when a sub-chunk's call fails with a size
\* error (and no completion call fails with an error outside the
\* size/rate-limit class), that sub-chunk is skipped and nothing else is:
\* every chunk and every sub-chunk of a re-split chunk gets its call, in diff
\* order, and the call returns the combination of exactly the successful
\* assessments in that order, or the fallback when there is none.
C26_PartialCoverage ==
  (Done /\ Chunked /\ SubChunkSkipped
     /\ \A k \in 1..Len(calls) : Succeeded(calls[k]) \/ SizeFailed(calls[k])) =>
    /\ ret.kind = "return"
    /\ CoversFrom(TopChunks, 1, 1)
    /\ ret.value = IF Len(SuccessfulAssessments) = 0
                   THEN createFallbackAssessment(Len(input.diff))
                   ELSE combineAssessments(SuccessfulAssessments)

\* the frames whose completion call is outstanding
Outstanding == {k \in 1..Len(stack) : stack[k].pc = "call"}

\* the calls issued so far: the finished ones and the outstanding one
IssuedCalls ==
  IF Outstanding = {} THEN calls
  ELSE Append(calls, [diff |-> Top.diff, result |-> "pending",
                      raisedSizeLimit |-> FALSE, response |-> NoAssessment])

\* the issued calls from the k-th on follow the diff from chunk i on: a
\* chunk's call, then, when it failed with a size error, its sub-chunks'
\* calls in order, then the next chunk's; an outstanding call and a call that
\* failed with another error have no call after them
RECURSIVE InDiffOrderFrom(_, _, _, _)
InDiffOrderFrom(chunks, issued, i, k) ==
  LET Ended(call) == Succeeded(call) \/ SizeFailed(call)
  IN IF k > Len(issued) THEN TRUE
     ELSE /\ i <= Len(chunks)
          /\ issued[k].diff = chunks[i]
          /\ IF Succeeded(issued[k])
             THEN InDiffOrderFrom(chunks, issued, i + 1, k + 1)
             ELSE IF SizeFailed(issued[k])
             THEN LET subs == SubChunksOf(chunks[i])
                  IN /\ \A j \in 1..Len(subs) :
                          k + j <= Len(issued) =>
                            /\ issued[k + j].diff = subs[j]
                            /\ Ended(issued[k + j]) \/ k + j = Len(issued)
                     /\ k + Len(subs) < Len(issued) =>
                          InDiffOrderFrom(chunks, issued, i + 1,
                                          k + Len(subs) + 1)
             ELSE k = Len(issued)

\* C27: during one top-level analyzeDiff call of a chunked diff at most one
\* completion call is outstanding at any time, and the calls are issued in
\* diff order: the call for a chunk is issued only after the call of the
\* chunk before it and, when that chunk was re-split, the calls of all its
\* sub-chunks have ended.  The order is examined whenever a call is
\* outstanding, that is each time one has been issued.
C27_SequentialChunkProcessing ==
  /\ Cardinality(Outstanding) <= 1
  /\ Outstanding # {} => Outstanding = {Len(stack)}
  /\ (Outstanding # {} /\ Chunked) =>
       InDiffOrderFrom(TopChunks, IssuedCalls, 1, 1)

\* C27 witness: the first chunk's call failed with a size error, its two
\* sub-chunks were called one after the other, and only now the call for the
\* second chunk is outstanding.
C27_Witness ==
  /\ Chunked
  /\ Len(TopChunks) >= 2
  /\ Len(SubChunksOf(TopChunks[1])) = 2
  /\ Len(calls) = 3
  /\ SizeFailed(calls[1])
  /\ calls[2].diff = SubChunksOf(TopChunks[1])[1]
  /\ calls[3].diff = SubChunksOf(TopChunks[1])[2]
  /\ Outstanding = {Len(stack)}
  /\ Top.diff = TopChunks[2]
  /\ TopChunks[2] # TopChunks[1]

\* the error was thrown by the catch block of the direct path: it is none of
\* the errors analyzeDiff and the runtime raise elsewhere
FromDirectPath(error) ==
  /\ error \notin {EmptyDiffError, SplitFailedError, StackOverflowError}
  /\ ~IsHardMaximumRejection(error)

\* C28: whatever the try block of the direct path raised (a client error with
\* a 413 status or without, the empty response, a JSON or a schema failure),
\* the error analyzeDiff throws in its place is of the size/rate-limit class
\* for isSizeLimitError exactly when the raised one was; so a chunk is
\* re-split only after its call raised an error of that class, a failed call
\* of a chunk that raised one is followed by the call of the chunk's first
\* sub-chunk, and a call that raised an error of another class is followed
\* by no call at all.
C28_ClassificationPreserved ==
  /\ (ret.kind = "throw" /\ FromDirectPath(ret.error)) =>
       /\ Len(calls) > 0
       /\ ~Succeeded(calls[Len(calls)])
       /\ isSizeLimitError(ret.error) <=> calls[Len(calls)].raisedSizeLimit
  /\ \A k \in 1..Len(stack) :
       HasResplit(stack[k]) =>
         \E c \in 1..Len(calls) :
           /\ calls[c].diff = stack[k].chunks[stack[k].i]
           /\ SizeFailed(calls[c])
  /\ Chunked =>
       \A k \in 1..Len(calls) :
         /\ (~Succeeded(calls[k]) /\ ~calls[k].raisedSizeLimit) => k = Len(calls)
         /\ (k = 1 /\ SizeFailed(calls[k]) /\ Done) =>
              /\ Len(calls) >= 2
              /\ calls[2].diff = SubChunksOf(calls[1].diff)[1]

\* C28 witness: a chunk's call raised a size error and the chunk loop holds
\* the "too large for the LLM API" error thrown in its place, which it is
\* about to answer by re-splitting the chunk.
C28_Witness ==
  /\ Len(stack) = 1
  /\ Top.pc = "awaitChunk"
  /\ Len(calls) > 0
  /\ calls[Len(calls)].result = "size"
  /\ calls[Len(calls)].raisedSizeLimit
  /\ ret = Throw(TooLargeForApiError(Len(Top.chunks[Top.i])))
  /\ isSizeLimitError(ret.error)
  /\ chunkCatch(ret.error) = "split further"

----------------------------------------------------------------------------
(* FallbackSpec: createFallbackAssessment on every bounded diff size *)

FallbackInit ==
  /\ fSize \in 0..MaxFallbackSize
  /\ fOut = NoAssessment
  /\ fPc = "ready"
  /\ SplitIdle
  /\ CombineIdle
  /\ AnalyzeIdle
  /\ ParseIdle
  /\ ClassifyIdle
  /\ CliIdle
  /\ StdinIdle

FallbackCall ==
  /\ fPc = "ready"
  /\ fOut' = createFallbackAssessment(fSize)
  /\ fPc' = "done"
  /\ UNCHANGED fSize
  /\ UNCHANGED <<splitVars, combineVars, analyzeVars, parseVars, classifyVars, cliVars, stdinVars>>

FallbackNext == FallbackCall

FallbackSpec == FallbackInit /\ [][FallbackNext]_vars

\* C14: for every diff size n >= 0 the fallback assessment has risk_level
\* MEDIUM, missing_tests true, migration_risk NONE, a non-empty summary and
\* non-empty risk_factors and reviewer_focus_areas, and RiskSchema accepts it
\* and gives it back as it is.
C14_FallbackWellFormed ==
  fPc = "done" =>
    /\ fOut.risk_level = "MEDIUM"
    /\ fOut.missing_tests = TRUE
    /\ fOut.migration_risk = "NONE"
    /\ Len(fOut.risk_summary) > 0
    /\ Len(fOut.risk_factors) > 0
    /\ Len(fOut.reviewer_focus_areas) > 0
    /\ RiskSchemaParse(AssessmentObject(fOut)).success
    /\ RiskSchemaParse(AssessmentObject(fOut)).data = fOut

\* C14 witness: the fallback for a diff of size 37 names that size and passes
\* the schema.
C14_Witness ==
  /\ fPc = "done"
  /\ fSize = 37
  /\ fOut.risk_summary[2] = "37"
  /\ RiskSchemaParse(AssessmentObject(fOut)).success

----------------------------------------------------------------------------
(* ParseSpec: parseAndValidate on every bounded response content *)

\* the text a content is about: a JSON text or a text JSON.parse rejects
BodyTexts == {t.text : t \in JsonTexts} \cup NonJsonTexts

\* a body with up to MaxWrapLen fence, json and newline fragments before it
\* and up to MaxWrapLen newline and fence fragments after it
ParseContents ==
  {before \o <<body>> \o after :
     before \in StringsOver({Fence, "json", NL}, MaxWrapLen),
     body \in BodyTexts,
     after \in StringsOver({NL, Fence}, MaxWrapLen)}

ParseInit ==
  /\ pContent \in ParseContents
  /\ pOut = NoReturn
  /\ pPc = "ready"
  /\ SplitIdle
  /\ CombineIdle
  /\ AnalyzeIdle
  /\ FallbackIdle
  /\ ClassifyIdle
  /\ CliIdle
  /\ StdinIdle

ParseCall ==
  /\ pPc = "ready"
  /\ pOut' = parseAndValidate(pContent)
  /\ pPc' = "done"
  /\ UNCHANGED pContent
  /\ UNCHANGED <<splitVars, combineVars, analyzeVars, fallbackVars, classifyVars, cliVars, stdinVars>>

ParseNext == ParseCall

ParseSpec == ParseInit /\ [][ParseNext]_vars

SchemaKeys == {RiskSchema[k].key : k \in 1..Len(RiskSchema)}

\* the value is an object with every key of the expected shape, each of the
\* expected type and the two enums among their options
IsAssessmentObject(value) ==
  /\ value.type = "object"
  /\ SchemaKeys \subseteq DOMAIN value.fields
  /\ value.fields.risk_level \in {JsString(l) : l \in RiskLevels}
  /\ value.fields.risk_summary.type = "string"
  /\ value.fields.risk_factors.type = "array"
  /\ \A k \in 1..Len(value.fields.risk_factors.items) :
       value.fields.risk_factors.items[k].type = "string"
  /\ value.fields.reviewer_focus_areas.type = "array"
  /\ \A k \in 1..Len(value.fields.reviewer_focus_areas.items) :
       value.fields.reviewer_focus_areas.items[k].type = "string"
  /\ value.fields.missing_tests \in {JsBoolean(TRUE), JsBoolean(FALSE)}
  /\ value.fields.migration_risk \in {JsString(m) : m \in MigrationRisks}

\* the body of the content, and whether it is the JSON of an assessment
BodyOf(content) ==
  content[CHOOSE k \in 1..Len(content) : content[k] \in BodyTexts]

BodyValue(content) ==
  (CHOOSE t \in JsonTexts : t.text = BodyOf(content)).value

BodyIsAssessment(content) ==
  /\ BodyOf(content) \notin NonJsonTexts
  /\ IsAssessmentObject(BodyValue(content))

\* the body stands between an opening fence, with or without the word json
\* and a newline, and a closing fence, with or without a newline before it
WrappedInFences(content) ==
  \E before \in {<<Fence>>, <<Fence, "json">>, <<Fence, NL>>,
                  <<Fence, "json", NL>>},
     after \in {<<Fence>>, <<NL, Fence>>} :
    content = before \o <<BodyOf(content)>> \o after

\* C19 as stated: a content that deviates from the expected JSON shape in a
\* listed way (a missing field, a wrong enum value, a non-boolean
\* missing_tests, malformed JSON, or JSON wrapped in code fences) makes
\* parseAndValidate throw.
C19_StrictValidation ==
  (pPc = "done" /\ (~BodyIsAssessment(pContent) \/ WrappedInFences(pContent)))
    => pOut.kind = "throw"

\* C19 amended: a content whose JSON has a missing field, a wrong enum value
\* or a non-boolean missing_tests, or is malformed, makes parseAndValidate
\* throw, with or without code fences around it; what it returns is the
\* object of the JSON key by key, nothing coerced.  Code fences around the
\* JSON are removed first: the well-formed JSON of an assessment is accepted
\* inside fences as it is without them.
C19_StrictValidationInsideFences ==
  pPc = "done" =>
    /\ ~BodyIsAssessment(pContent) => pOut.kind = "throw"
    /\ pOut.kind = "return" =>
         \A key \in SchemaKeys :
           AssessmentObject(pOut.value).fields[key]
             = BodyValue(pContent).fields[key]
    /\ (BodyIsAssessment(pContent)
          /\ (WrappedInFences(pContent) \/ pContent = <<BodyOf(pContent)>>))
         => pOut.kind = "return"

\* C19 witness: JSON with a string for missing_tests was rejected inside code
\* fences.
C19_Witness ==
  /\ pPc = "done"
  /\ pContent = <<Fence, "json", NL, StringFlagJson, NL, Fence>>
  /\ pOut.kind = "throw"
  /\ MessageIncludes(pOut.error.message, "Response validation failed: ")

----------------------------------------------------------------------------
(* ClassifySpec: isSizeLimitError on every bounded thrown value *)

\* the fragments of the messages: the keywords in several spellings, a number
\* that holds 413, and texts without a keyword
MessageFragments ==
  { "413", "413 Request Too Large", "HTTP 4130",
    "request too large", "Request too large",
    "tokens per minute", "Tokens Per Minute",
    "tpm", "TPM", "too large", "Too Large",
    "normal error", "large", " exceeded" }

\* the values of status and response.status
StatusCodes == {NoStatus, 401, 413, 429, 500}

\* the Error instances handed to the classifier
ThrownErrors ==
  [message : StringsOver(MessageFragments, MaxMessageLen),
   status : StatusCodes, responseStatus : StatusCodes]

\* the values that are not Error instances: a string, null, and an object
\* with the message and the status of a size error
ThrownNonErrors ==
  { JsString(<<"string">>), JsString(<<"413", "too large">>), JsNull,
    JsObject([message |-> JsString(<<"request too large">>),
              status |-> JsNumber(413)]) }

ClassifyInit ==
  /\ eValue \in ThrownErrors \cup ThrownNonErrors
  /\ eOut = FALSE
  /\ ePc = "ready"
  /\ SplitIdle
  /\ CombineIdle
  /\ AnalyzeIdle
  /\ ParseIdle
  /\ FallbackIdle
  /\ CliIdle
  /\ StdinIdle

ClassifyCall ==
  /\ ePc = "ready"
  /\ eOut' = isSizeLimitError(eValue)
  /\ ePc' = "done"
  /\ UNCHANGED eValue
  /\ UNCHANGED <<splitVars, combineVars, analyzeVars, parseVars, fallbackVars,
                 cliVars, stdinVars>>

ClassifyNext == ClassifyCall

ClassifySpec == ClassifyInit /\ [][ClassifyNext]_vars

\* the keywords of the size/rate-limit class
LimitKeywords ==
  {"413", "request too large", "tokens per minute", "tpm", "too large"}

\* the message contains a keyword, whatever the case of its letters
HasLimitKeyword(message) ==
  \E k \in 1..Len(message), keyword \in LimitKeywords :
    FragmentIncludes(LowerFragment(message[k]), keyword)

\* C22 as stated: isSizeLimitError returns true for every Error whose message
\* contains a keyword, in any case, or whose status or response.status is
\* 413, and false for every other Error and for every value that is not an
\* Error.
C22_ErrorClassification ==
  ePc = "done" =>
    (eOut <=> /\ isError(eValue)
              /\ \/ HasLimitKeyword(eValue.message)
                 \/ eValue.status = 413
                 \/ eValue.responseStatus = 413)

\* C22 amended: isSizeLimitError returns true for every Error whose message
\* contains a keyword, in any case, or whose status is 413, or which has no
\* status and whose response.status is 413; it returns false for every other
\* Error (one with another status and a response.status of 413 included) and
\* for every value that is not an Error.
C22_ErrorClassificationByFirstStatus ==
  ePc = "done" =>
    (eOut <=> /\ isError(eValue)
              /\ \/ HasLimitKeyword(eValue.message)
                 \/ eValue.status = 413
                 \/ eValue.status = NoStatus /\ eValue.responseStatus = 413)

\* C22 witness: an Error without a keyword and without a status of its own,
\* whose response.status is 413, was classified as a size error.
C22_Witness ==
  /\ ePc = "done"
  /\ isError(eValue)
  /\ eValue.message = <<"normal error">>
  /\ eValue.status = NoStatus
  /\ eValue.responseStatus = 413
  /\ eOut = TRUE

----------------------------------------------------------------------------
(* CliSpec: the exit code of main after a successful analysis *)

\* a ?? b
Nullish(a, b) == IF a.type \in {"undefined", "null"} THEN b ELSE a

\* the truthiness of a value in a condition
Truthy(value) ==
  CASE value.type = "boolean" -> value.bool
    [] value.type = "string" -> value.str # ""
    [] value.type = "number" -> value.num # 0
    [] value.type \in {"undefined", "null"} -> FALSE
    [] OTHER -> TRUE

\* interactiveOptions?.key
OptionalField(object, key) ==
  IF object.type \in {"undefined", "null"} THEN JsUndefined
  ELSE object.fields[key]

\* riskLevelOrder[key] of main: undefined for a key the record lacks
mainRiskLevelOrder(key) ==
  CASE key = "LOW" -> JsNumber(1)
    [] key = "MEDIUM" -> JsNumber(2)
    [] key = "HIGH" -> JsNumber(3)
    [] OTHER -> JsUndefined

\* Mutant: missing tests always give exit code 3
missingTestsExitCode_Always3(exitCode) == 3

\* exitCode === 0 ? 3 : exitCode
missingTestsExitCode(exitCode) == IF exitCode = 0 THEN 3 ELSE exitCode

\* lines 437-457: the exit code main computes
mainExitCode(argv, interactiveOptions, assessment) ==
  LET failOnRisk == Nullish(OptionalField(interactiveOptions, "failOnRisk"),
                            argv.failOnRisk)
      threshold == mainRiskLevelOrder(failOnRisk.str)
      actual == mainRiskLevelOrder(assessment.risk_level)
      afterRisk ==
        IF /\ Truthy(failOnRisk)
           /\ threshold # JsUndefined
           /\ actual # JsUndefined
           /\ actual.num >= threshold.num
        THEN 2 ELSE 0
      failOnMissingTests ==
        Nullish(OptionalField(interactiveOptions, "failOnMissingTests"),
                Nullish(argv.failOnMissingTests, JsBoolean(FALSE)))
  IN IF Truthy(failOnMissingTests) /\ assessment.missing_tests
     THEN missingTestsExitCode(afterRisk)
     ELSE afterRisk

\* argv after yargs: --fail-on-risk is absent or one of its choices,
\* --fail-on-missing-tests is absent, true or false (--no-...)
Argvs ==
  [failOnRisk : {JsUndefined} \cup {JsString(l) : l \in RiskLevels},
   failOnMissingTests : {JsUndefined, JsBoolean(TRUE), JsBoolean(FALSE)}]

\* what runInteractive returns with --ui: the answer to the risk prompt as
\* typed (undefined for none), and whether the answer to the tests prompt
\* was y or yes; undefined without --ui
InteractiveOptions ==
  {JsUndefined} \cup
  {JsObject([failOnRisk |-> r, failOnMissingTests |-> JsBoolean(t)]) :
     r \in {JsUndefined} \cup {JsString(l) : l \in RiskLevels \cup {"high"}},
     t \in BOOLEAN}

CliInit ==
  /\ mIn \in [argv : Argvs, interactiveOptions : InteractiveOptions,
               assessment : ClientAssessments \cup Assessments]
  /\ mExit = 0
  /\ mPc = "analyzed"
  /\ SplitIdle
  /\ CombineIdle
  /\ AnalyzeIdle
  /\ ParseIdle
  /\ FallbackIdle
  /\ ClassifyIdle
  /\ StdinIdle

\* lines 437-461: process.exit(exitCode), or the end of main with code 0
CliExit ==
  /\ mPc = "analyzed"
  /\ mExit' = mainExitCode(mIn.argv, mIn.interactiveOptions, mIn.assessment)
  /\ mPc' = "exited"
  /\ UNCHANGED mIn
  /\ UNCHANGED <<splitVars, combineVars, analyzeVars, parseVars, fallbackVars,
                 classifyVars, stdinVars>>

CliNext == CliExit

CliSpec == CliInit /\ [][CliNext]_vars

\* the threshold a flag or an answer names, 0 when it names none
ThresholdOf(option) ==
  IF option.type = "string" /\ option.str \in RiskLevels
  THEN riskLevelOrder(option.str) ELSE 0

EffectiveFailOnRisk ==
  IF mIn.interactiveOptions # JsUndefined
     /\ mIn.interactiveOptions.fields.failOnRisk # JsUndefined
  THEN mIn.interactiveOptions.fields.failOnRisk
  ELSE mIn.argv.failOnRisk

EffectiveFailOnMissingTests ==
  IF mIn.interactiveOptions # JsUndefined
  THEN mIn.interactiveOptions.fields.failOnMissingTests = JsBoolean(TRUE)
  ELSE mIn.argv.failOnMissingTests = JsBoolean(TRUE)

----------------------------------------------------------------------------
(* StdinSpec: readDiffFromStdin and the events of stdin and of its timer *)

\* the characters stdin delivers
StdinAlphabet == {"d", NL}

\* the chunk of a 'data' event: a stream never emits an empty chunk
StdinChunks == StringsOver(StdinAlphabet, MaxStdinChunk) \ {<<>>}

\* the message of the error a stream 'error' event carries
StdinErrorMessages == {<<"read EIO">>}

\* setTimeout: a handle no armed timer has
setTimeout(armed) ==
  CHOOSE id \in 1..(Cardinality(armed) + 1) : id \notin armed

\* Mutant: the handle is forgotten but its timer is not cleared
clearTimeoutSafely_NullOnly(timeout, armed) ==
  [timeout |-> 0, armed |-> armed]

\* clearTimeoutSafely: clearTimeout(timeout) and timeout = null, when a handle
\* is held
clearTimeoutSafely(timeout, armed) ==
  IF timeout # 0
  THEN [timeout |-> 0, armed |-> armed \ {timeout}]
  ELSE [timeout |-> timeout, armed |-> armed]

\* cleanup: clearTimeoutSafely and removeListener for data, end and error
cleanup(timeout, armed, listeners) ==
  LET cleared == clearTimeoutSafely(timeout, armed)
  IN [timeout |-> cleared.timeout,
      armed |-> cleared.armed,
      listeners |-> listeners \ {"data", "end", "error"}]

\* the errors the reader rejects with (the oversize message without its
\* rounded number of megabytes)
NoStdinInputError ==
  MakeError(<<"No input provided via stdin. Pipe a diff or use --file, --base/--head, or --uncommitted">>)
StdinTimeoutError == MakeError(<<"Timeout waiting for stdin input">>)
StdinOversizeError == MakeError(<<"Input exceeds maximum size of ", "MB">>)
StdinNoDataError == MakeError(<<"No data received from stdin">>)
StdinFailedError(message) ==
  MakeError(<<"Failed to read from stdin: ">> \o message)

\* a call of resolve or reject, with the handler that made it
Resolved(on, value) == [kind |-> "resolve", on |-> on, value |-> value]
Rejected(on, error) == [kind |-> "reject", on |-> on, error |-> error]

StdinInit ==
  /\ rTTY \in BOOLEAN
  /\ rMax \in 1..MaxStdinBytes
  /\ rData = <<>>
  /\ rTimeout = 0
  /\ rArmed = {}
  /\ rListeners = {}
  /\ rSettle = <<>>
  /\ rPc = "called"
  /\ SplitIdle
  /\ CombineIdle
  /\ AnalyzeIdle
  /\ ParseIdle
  /\ FallbackIdle
  /\ ClassifyIdle
  /\ CliIdle

StdinOthersUnchanged ==
  UNCHANGED <<splitVars, combineVars, analyzeVars, parseVars, fallbackVars,
              classifyVars, cliVars>>

\* the executor of the promise: the isTTY rejection, or the first timer and
\* the three listeners
ReadStart ==
  /\ rPc = "called"
  /\ rPc' = "running"
  /\ IF rTTY
     THEN /\ rSettle' = Append(rSettle, Rejected("start", NoStdinInputError))
          /\ UNCHANGED <<rTimeout, rArmed, rListeners>>
     ELSE /\ rTimeout' = setTimeout(rArmed)
          /\ rArmed' = rArmed \cup {setTimeout(rArmed)}
          /\ rListeners' = rListeners \cup {"data", "end", "error"}
          /\ UNCHANGED rSettle
  /\ UNCHANGED <<rTTY, rMax, rData>>
  /\ StdinOthersUnchanged

\* onData: a 'data' event while the listener is on
OnData ==
  /\ rPc = "running"
  /\ "data" \in rListeners
  /\ \E chunk \in StdinChunks :
       LET data == rData \o chunk
       IN /\ rData' = data
          /\ IF Len(data) > rMax
             THEN LET cleaned == cleanup(rTimeout, rArmed, rListeners)
                  IN /\ rTimeout' = cleaned.timeout
                     /\ rArmed' = cleaned.armed
                     /\ rListeners' = cleaned.listeners
                     /\ rSettle' = Append(rSettle,
                                          Rejected("data", StdinOversizeError))
             ELSE LET cleared == clearTimeoutSafely(rTimeout, rArmed)
                  IN /\ rTimeout' = setTimeout(cleared.armed)
                     /\ rArmed' = cleared.armed \cup {setTimeout(cleared.armed)}
                     /\ UNCHANGED <<rListeners, rSettle>>
  /\ UNCHANGED <<rTTY, rMax, rPc>>
  /\ StdinOthersUnchanged

\* onEnd: the 'end' event while the listener is on
OnEnd ==
  /\ rPc = "running"
  /\ "end" \in rListeners
  /\ LET cleaned == cleanup(rTimeout, rArmed, rListeners)
     IN /\ rTimeout' = cleaned.timeout
        /\ rArmed' = cleaned.armed
        /\ rListeners' = cleaned.listeners
  /\ rSettle' = Append(rSettle,
                       IF Len(rData) = 0 \/ Len(Trim(rData)) = 0
                       THEN Rejected("end", StdinNoDataError)
                       ELSE Resolved("end", rData))
  /\ UNCHANGED <<rTTY, rMax, rData, rPc>>
  /\ StdinOthersUnchanged

\* onError: an 'error' event while the listener is on
OnError ==
  /\ rPc = "running"
  /\ "error" \in rListeners
  /\ \E message \in StdinErrorMessages :
       rSettle' = Append(rSettle, Rejected("error", StdinFailedError(message)))
  /\ LET cleaned == cleanup(rTimeout, rArmed, rListeners)
     IN /\ rTimeout' = cleaned.timeout
        /\ rArmed' = cleaned.armed
        /\ rListeners' = cleaned.listeners
  /\ UNCHANGED <<rTTY, rMax, rData, rPc>>
  /\ StdinOthersUnchanged

\* an armed timer fires and its callback runs
OnTimeout ==
  /\ rPc = "running"
  /\ \E timer \in rArmed :
       LET cleaned == cleanup(rTimeout, rArmed \ {timer}, rListeners)
       IN /\ rTimeout' = cleaned.timeout
          /\ rArmed' = cleaned.armed
          /\ rListeners' = cleaned.listeners
  /\ rSettle' = Append(rSettle, Rejected("timeout", StdinTimeoutError))
  /\ UNCHANGED <<rTTY, rMax, rData, rPc>>
  /\ StdinOthersUnchanged

StdinNext ==
  \/ ReadStart
  \/ OnData
  \/ OnEnd
  \/ OnError
  \/ OnTimeout

\* the executor runs when the promise is made, and an armed timer fires
StdinSpec ==
  /\ StdinInit
  /\ [][StdinNext]_vars
  /\ WF_vars(ReadStart)
  /\ WF_vars(OnTimeout)

\* resolve or reject has been called
StdinSettled == Len(rSettle) > 0

\* at most one timer is armed, resolve and reject are called at most once
\* between them, each for its own cause, and after the call no timer is armed
\* and no listener is on
StdinSettledOnceAndClean ==
  /\ Cardinality(rArmed) <= 1
  /\ Len(rSettle) <= 1
  /\ StdinSettled =>
       /\ rArmed = {}
       /\ rListeners = {}
       /\ LET settled == rSettle[1]
          IN IF settled.kind = "resolve"
             THEN /\ settled.on = "end"
                  /\ settled.value = rData
                  /\ HasContent(rData)
                  /\ Len(rData) <= rMax
             ELSE \/ settled.on = "timeout" /\ settled.error = StdinTimeoutError
                  \/ /\ settled.on = "data"
                     /\ settled.error = StdinOversizeError
                     /\ Len(rData) > rMax
                  \/ /\ settled.on = "error"
                     /\ \E message \in StdinErrorMessages :
                          settled.error = StdinFailedError(message)
                  \/ /\ settled.on = "end"
                     /\ settled.error = StdinNoDataError
                     /\ ~HasContent(rData)
                  \/ /\ settled.on = "start"
                     /\ settled.error = NoStdinInputError
                     /\ rTTY
                     /\ rData = <<>>

\* C29: under every order of the 'data', 'end' and 'error' events and of the
\* timer, readDiffFromStdin has at most one timer armed at any time and its
\* promise settles exactly once: it is resolved only by 'end' with data that
\* has a non-whitespace character and is within maxSizeBytes, it is rejected
\* for the timeout, data over maxSizeBytes, a stream error or no input, and
\* once it has settled no timer is armed and the data, end and error
\* listeners are removed.
C29_StdinReaderCleanup ==
  /\ []StdinSettledOnceAndClean
  /\ <>(Len(rSettle) = 1)

\* C29 witness: data arrived within maxSizeBytes and re-armed the timer, then
\* 'end' resolved the promise with it; no timer is armed and no listener is
\* left.
C29_Witness ==
  /\ rPc = "running"
  /\ ~rTTY
  /\ Len(rData) = 2
  /\ rMax >= 2
  /\ rSettle = <<Resolved("end", rData)>>
  /\ rArmed = {}
  /\ rTimeout = 0
  /\ rListeners = {}

----------------------------------------------------------------------------
(* SplitUseSpec: the splitter alone and inside analyzeDiff *)

\* a behaviour of SplitSpec or a behaviour of Spec
SplitUseInit == SplitInit \/ Init

SplitUseNext == SplitNext \/ Next

SplitUseSpec == SplitUseInit /\ [][SplitUseNext]_vars

\* the text has a character that is not whitespace
HasNonWhitespace(text) == \E k \in 1..Len(text) : text[k] \notin Whitespace

\* at least one chunk, and a non-whitespace character in every chunk
RealChunks(chunks) ==
  /\ Len(chunks) >= 1
  /\ \A k \in 1..Len(chunks) : HasNonWhitespace(chunks[k])

\* C30: for every diff with a non-whitespace character and every positive
\* budget splitDiffIntoChunks returns at least one chunk, and every chunk it
\* returns has a non-whitespace character; so inside analyzeDiff the chunks
\* of a diff and the sub-chunks of a chunk are never none, analyzeDiff never
\* throws "Failed to split diff into chunks", and it calls combineAssessments
\* only with an assessment to combine.
C30_NeverZeroChunks ==
  /\ (sPc = "done" /\ HasNonWhitespace(sDiff)) =>
       sBudget > 0 /\ RealChunks(sChunks)
  /\ sPc = "done" =>
       \A k \in 1..Len(sChunks) : HasNonWhitespace(sChunks[k])
  /\ \A k \in 1..Len(stack) :
       /\ stack[k].pc \in {"chunks", "awaitChunk", "subChunks", "awaitSub"} =>
            RealChunks(stack[k].chunks)
       /\ stack[k].pc \in {"subChunks", "awaitSub"} =>
            RealChunks(stack[k].subChunks)
  /\ ret # Throw(SplitFailedError)
  /\ invoked.combineAssessments > 0 =>
       /\ \E k \in 1..Len(calls) : Succeeded(calls[k])
       /\ ret.kind = "return" => ret.value # createFallbackAssessment(0)

\* C30 witness: analyzeDiff split a diff that has a blank line into chunks,
\* re-split a chunk after a size error, and returned what combineAssessments
\* made of more than one assessment.
C30_Witness ==
  /\ Done
  /\ ret.kind = "return"
  /\ \E k \in 1..(Len(input.diff) - 1) :
       input.diff[k] = NL /\ input.diff[k + 1] = NL
  /\ invoked.splitDiffIntoChunks = 2
  /\ invoked.combineAssessments = 1
  /\ Len(SuccessfulAssessments) >= 2
  /\ ret.value = combineAssessments(SuccessfulAssessments)

=============================================================================
